---- MODULE Spec2Model ----
(***************************************************************************)
(* Model of fitness.py: the FitnessApp interactive collector and its       *)
(* append-only per-day record store.                                       *)
(*                                                                         *)
(* A text is the sequence of its code points, so that str.split,           *)
(* str.isdigit, str.lower, int() and float() are computed character by     *)
(* character, over the character classes of Python 3.11.                   *)
(*                                                                         *)
(* A Python int is a sign and a natural number of any size.  A Python      *)
(* float is an IEEE 754 binary64 number: finite, infinite or nan, with a   *)
(* signed zero; float(), the division and the power of calculate_bmi       *)
(* round as the interpreter does.                                          *)
(***************************************************************************)
EXTENDS Integers, Sequences, FiniteSets, TLC

VARIABLES
    pc,              \* the input() call, or program point, the process is at
    now,             \* the clock read by datetime.now()
    platform,        \* platform.system()
    files,           \* the 'Gym Progress' folder: file name -> rows
    user_info,       \* self.user_info
    height_cm,       \* input_user_info: height_cm
    parts_choice,    \* input_body_parts_and_exercises: parts_choice, while
                     \* the for loop has not started
    selected_parts,  \* selected_parts
    part_iter,       \* number of items the for loop has taken from it
    part,            \* part
    ex_choice,       \* ex_choice
    exercise,        \* exercise
    weight,          \* weight
    reps,            \* reps
    more,            \* more
    exercises_data,  \* exercises_data; main_loop: data
    printed,         \* the message printed by the last step
    passes,          \* history: collection passes started
    entered,         \* history: parts whose exercise loop this pass entered
    created,         \* history: every record created by the process
    files0,          \* history: the folder as the process found it
    saved            \* history: the instant, the date and the file_path of
                     \* every save

vars == <<pc, now, platform, files, user_info, height_cm, parts_choice,
          selected_parts, part_iter, part, ex_choice, exercise, weight, reps,
          more, exercises_data, printed, passes, entered, created, files0,
          saved>>

----------------------------------------------------------------------------
(* Bounds of the model *)

\* longest body-part line, in comma-separated tokens
MaxTokens == 2
\* collection passes started by one process run
MaxPasses == 2
\* records one process run creates
MaxRecords == 2
\* last instant of the clock
MaxNow == 2

\* clock instants per calendar day; a run starts at the last instant but
\* one of a day
TicksPerDay == 2

----------------------------------------------------------------------------
(* Character classes of Python 3.11 (Unicode 14.0.0) *)

\* A text is a sequence of code points.  The tables below list code points
\* in ranges <<first, last>>.

InRanges(c, ranges) == \E r \in ranges : r[1] <= c /\ c <= r[2]

\* the characters c with c.isdigit() true (Numeric_Type Digit or Decimal)
DigitRanges ==
    {<<48, 57>>, <<178, 179>>, <<185, 185>>, <<1632, 1641>>, <<1776, 1785>>,
     <<1984, 1993>>, <<2406, 2415>>, <<2534, 2543>>, <<2662, 2671>>,
     <<2790, 2799>>, <<2918, 2927>>, <<3046, 3055>>, <<3174, 3183>>,
     <<3302, 3311>>, <<3430, 3439>>, <<3558, 3567>>, <<3664, 3673>>,
     <<3792, 3801>>, <<3872, 3881>>, <<4160, 4169>>, <<4240, 4249>>,
     <<4969, 4977>>, <<6112, 6121>>, <<6160, 6169>>, <<6470, 6479>>,
     <<6608, 6618>>, <<6784, 6793>>, <<6800, 6809>>, <<6992, 7001>>,
     <<7088, 7097>>, <<7232, 7241>>, <<7248, 7257>>, <<8304, 8304>>,
     <<8308, 8313>>, <<8320, 8329>>, <<9312, 9320>>, <<9332, 9340>>,
     <<9352, 9360>>, <<9450, 9450>>, <<9461, 9469>>, <<9471, 9471>>,
     <<10102, 10110>>, <<10112, 10120>>, <<10122, 10130>>, <<42528, 42537>>,
     <<43216, 43225>>, <<43264, 43273>>, <<43472, 43481>>, <<43504, 43513>>,
     <<43600, 43609>>, <<44016, 44025>>, <<65296, 65305>>, <<66720, 66729>>,
     <<68160, 68163>>, <<68912, 68921>>, <<69216, 69224>>, <<69714, 69722>>,
     <<69734, 69743>>, <<69872, 69881>>, <<69942, 69951>>, <<70096, 70105>>,
     <<70384, 70393>>, <<70736, 70745>>, <<70864, 70873>>, <<71248, 71257>>,
     <<71360, 71369>>, <<71472, 71481>>, <<71904, 71913>>, <<72016, 72025>>,
     <<72784, 72793>>, <<73040, 73049>>, <<73120, 73129>>, <<92768, 92777>>,
     <<92864, 92873>>, <<93008, 93017>>, <<120782, 120831>>,
     <<123200, 123209>>, <<123632, 123641>>, <<125264, 125273>>,
     <<127232, 127242>>, <<130032, 130041>>}

\* the decimal digits, which int() and float() read: in each range the
\* digits 0 to 9 follow one another, once or several times
DecimalRanges ==
    {<<48, 57>>, <<1632, 1641>>, <<1776, 1785>>, <<1984, 1993>>,
     <<2406, 2415>>, <<2534, 2543>>, <<2662, 2671>>, <<2790, 2799>>,
     <<2918, 2927>>, <<3046, 3055>>, <<3174, 3183>>, <<3302, 3311>>,
     <<3430, 3439>>, <<3558, 3567>>, <<3664, 3673>>, <<3792, 3801>>,
     <<3872, 3881>>, <<4160, 4169>>, <<4240, 4249>>, <<6112, 6121>>,
     <<6160, 6169>>, <<6470, 6479>>, <<6608, 6617>>, <<6784, 6793>>,
     <<6800, 6809>>, <<6992, 7001>>, <<7088, 7097>>, <<7232, 7241>>,
     <<7248, 7257>>, <<42528, 42537>>, <<43216, 43225>>, <<43264, 43273>>,
     <<43472, 43481>>, <<43504, 43513>>, <<43600, 43609>>, <<44016, 44025>>,
     <<65296, 65305>>, <<66720, 66729>>, <<68912, 68921>>, <<69734, 69743>>,
     <<69872, 69881>>, <<69942, 69951>>, <<70096, 70105>>, <<70384, 70393>>,
     <<70736, 70745>>, <<70864, 70873>>, <<71248, 71257>>, <<71360, 71369>>,
     <<71472, 71481>>, <<71904, 71913>>, <<72016, 72025>>, <<72784, 72793>>,
     <<73040, 73049>>, <<73120, 73129>>, <<92768, 92777>>, <<92864, 92873>>,
     <<93008, 93017>>, <<120782, 120831>>, <<123200, 123209>>,
     <<123632, 123641>>, <<125264, 125273>>, <<130032, 130041>>}

\* the characters int() and float() strip from both ends of their argument
SpaceChars ==
    {9, 10, 11, 12, 13, 32, 133, 160, 5760, 8192, 8193, 8194, 8195, 8196,
     8197, 8198, 8199, 8200, 8201, 8202, 8232, 8233, 8239, 8287, 12288}

\* str.lower() of one character: <<first, last, step, delta>> says that
\* first, first + step, ..., last become themselves plus delta
LowerRuns ==
    {<<65, 90, 1, 32>>, <<192, 214, 1, 32>>, <<216, 222, 1, 32>>,
     <<256, 302, 2, 1>>, <<306, 310, 2, 1>>, <<313, 327, 2, 1>>,
     <<330, 374, 2, 1>>, <<376, 376, 1, -121>>, <<377, 381, 2, 1>>,
     <<385, 385, 1, 210>>, <<386, 388, 2, 1>>, <<390, 390, 1, 206>>,
     <<391, 391, 1, 1>>, <<393, 394, 1, 205>>, <<395, 395, 1, 1>>,
     <<398, 398, 1, 79>>, <<399, 399, 1, 202>>, <<400, 400, 1, 203>>,
     <<401, 401, 1, 1>>, <<403, 403, 1, 205>>, <<404, 404, 1, 207>>,
     <<406, 406, 1, 211>>, <<407, 407, 1, 209>>, <<408, 408, 1, 1>>,
     <<412, 412, 1, 211>>, <<413, 413, 1, 213>>, <<415, 415, 1, 214>>,
     <<416, 420, 2, 1>>, <<422, 422, 1, 218>>, <<423, 423, 1, 1>>,
     <<425, 425, 1, 218>>, <<428, 428, 1, 1>>, <<430, 430, 1, 218>>,
     <<431, 431, 1, 1>>, <<433, 434, 1, 217>>, <<435, 437, 2, 1>>,
     <<439, 439, 1, 219>>, <<440, 440, 1, 1>>, <<444, 444, 1, 1>>,
     <<452, 452, 1, 2>>, <<453, 453, 1, 1>>, <<455, 455, 1, 2>>,
     <<456, 456, 1, 1>>, <<458, 458, 1, 2>>, <<459, 475, 2, 1>>,
     <<478, 494, 2, 1>>, <<497, 497, 1, 2>>, <<498, 500, 2, 1>>,
     <<502, 502, 1, -97>>, <<503, 503, 1, -56>>, <<504, 542, 2, 1>>,
     <<544, 544, 1, -130>>, <<546, 562, 2, 1>>, <<570, 570, 1, 10795>>,
     <<571, 571, 1, 1>>, <<573, 573, 1, -163>>, <<574, 574, 1, 10792>>,
     <<577, 577, 1, 1>>, <<579, 579, 1, -195>>, <<580, 580, 1, 69>>,
     <<581, 581, 1, 71>>, <<582, 590, 2, 1>>, <<880, 882, 2, 1>>,
     <<886, 886, 1, 1>>, <<895, 895, 1, 116>>, <<902, 902, 1, 38>>,
     <<904, 906, 1, 37>>, <<908, 908, 1, 64>>, <<910, 911, 1, 63>>,
     <<913, 929, 1, 32>>, <<931, 939, 1, 32>>, <<975, 975, 1, 8>>,
     <<984, 1006, 2, 1>>, <<1012, 1012, 1, -60>>, <<1015, 1015, 1, 1>>,
     <<1017, 1017, 1, -7>>, <<1018, 1018, 1, 1>>, <<1021, 1023, 1, -130>>,
     <<1024, 1039, 1, 80>>, <<1040, 1071, 1, 32>>, <<1120, 1152, 2, 1>>,
     <<1162, 1214, 2, 1>>, <<1216, 1216, 1, 15>>, <<1217, 1229, 2, 1>>,
     <<1232, 1326, 2, 1>>, <<1329, 1366, 1, 48>>, <<4256, 4293, 1, 7264>>,
     <<4295, 4295, 1, 7264>>, <<4301, 4301, 1, 7264>>,
     <<5024, 5103, 1, 38864>>, <<5104, 5109, 1, 8>>,
     <<7312, 7354, 1, -3008>>, <<7357, 7359, 1, -3008>>,
     <<7680, 7828, 2, 1>>, <<7838, 7838, 1, -7615>>, <<7840, 7934, 2, 1>>,
     <<7944, 7951, 1, -8>>, <<7960, 7965, 1, -8>>, <<7976, 7983, 1, -8>>,
     <<7992, 7999, 1, -8>>, <<8008, 8013, 1, -8>>, <<8025, 8031, 2, -8>>,
     <<8040, 8047, 1, -8>>, <<8072, 8079, 1, -8>>, <<8088, 8095, 1, -8>>,
     <<8104, 8111, 1, -8>>, <<8120, 8121, 1, -8>>, <<8122, 8123, 1, -74>>,
     <<8124, 8124, 1, -9>>, <<8136, 8139, 1, -86>>, <<8140, 8140, 1, -9>>,
     <<8152, 8153, 1, -8>>, <<8154, 8155, 1, -100>>, <<8168, 8169, 1, -8>>,
     <<8170, 8171, 1, -112>>, <<8172, 8172, 1, -7>>, <<8184, 8185, 1, -128>>,
     <<8186, 8187, 1, -126>>, <<8188, 8188, 1, -9>>,
     <<8486, 8486, 1, -7517>>, <<8490, 8490, 1, -8383>>,
     <<8491, 8491, 1, -8262>>, <<8498, 8498, 1, 28>>, <<8544, 8559, 1, 16>>,
     <<8579, 8579, 1, 1>>, <<9398, 9423, 1, 26>>, <<11264, 11311, 1, 48>>,
     <<11360, 11360, 1, 1>>, <<11362, 11362, 1, -10743>>,
     <<11363, 11363, 1, -3814>>, <<11364, 11364, 1, -10727>>,
     <<11367, 11371, 2, 1>>, <<11373, 11373, 1, -10780>>,
     <<11374, 11374, 1, -10749>>, <<11375, 11375, 1, -10783>>,
     <<11376, 11376, 1, -10782>>, <<11378, 11378, 1, 1>>,
     <<11381, 11381, 1, 1>>, <<11390, 11391, 1, -10815>>,
     <<11392, 11490, 2, 1>>, <<11499, 11501, 2, 1>>, <<11506, 11506, 1, 1>>,
     <<42560, 42604, 2, 1>>, <<42624, 42650, 2, 1>>, <<42786, 42798, 2, 1>>,
     <<42802, 42862, 2, 1>>, <<42873, 42875, 2, 1>>,
     <<42877, 42877, 1, -35332>>, <<42878, 42886, 2, 1>>,
     <<42891, 42891, 1, 1>>, <<42893, 42893, 1, -42280>>,
     <<42896, 42898, 2, 1>>, <<42902, 42920, 2, 1>>,
     <<42922, 42922, 1, -42308>>, <<42923, 42923, 1, -42319>>,
     <<42924, 42924, 1, -42315>>, <<42925, 42925, 1, -42305>>,
     <<42926, 42926, 1, -42308>>, <<42928, 42928, 1, -42258>>,
     <<42929, 42929, 1, -42282>>, <<42930, 42930, 1, -42261>>,
     <<42931, 42931, 1, 928>>, <<42932, 42946, 2, 1>>,
     <<42948, 42948, 1, -48>>, <<42949, 42949, 1, -42307>>,
     <<42950, 42950, 1, -35384>>, <<42951, 42953, 2, 1>>,
     <<42960, 42960, 1, 1>>, <<42966, 42968, 2, 1>>, <<42997, 42997, 1, 1>>,
     <<65313, 65338, 1, 32>>, <<66560, 66599, 1, 40>>,
     <<66736, 66771, 1, 40>>, <<66928, 66938, 1, 39>>,
     <<66940, 66954, 1, 39>>, <<66956, 66962, 1, 39>>,
     <<66964, 66965, 1, 39>>, <<68736, 68786, 1, 64>>,
     <<71840, 71871, 1, 32>>, <<93760, 93791, 1, 32>>,
     <<125184, 125217, 1, 34>>}

\* the cased characters that are not case-ignorable, U+03A3 apart
CasedRanges ==
    {<<65, 90>>, <<97, 122>>, <<170, 170>>, <<181, 181>>, <<186, 186>>,
     <<192, 214>>, <<216, 246>>, <<248, 442>>, <<444, 447>>, <<452, 659>>,
     <<661, 687>>, <<880, 883>>, <<886, 887>>, <<891, 893>>, <<895, 895>>,
     <<902, 902>>, <<904, 906>>, <<908, 908>>, <<910, 929>>, <<932, 1013>>,
     <<1015, 1153>>, <<1162, 1327>>, <<1329, 1366>>, <<1376, 1416>>,
     <<4256, 4293>>, <<4295, 4295>>, <<4301, 4301>>, <<4304, 4346>>,
     <<4349, 4351>>, <<5024, 5109>>, <<5112, 5117>>, <<7296, 7304>>,
     <<7312, 7354>>, <<7357, 7359>>, <<7424, 7467>>, <<7531, 7543>>,
     <<7545, 7578>>, <<7680, 7957>>, <<7960, 7965>>, <<7968, 8005>>,
     <<8008, 8013>>, <<8016, 8023>>, <<8025, 8025>>, <<8027, 8027>>,
     <<8029, 8029>>, <<8031, 8061>>, <<8064, 8116>>, <<8118, 8124>>,
     <<8126, 8126>>, <<8130, 8132>>, <<8134, 8140>>, <<8144, 8147>>,
     <<8150, 8155>>, <<8160, 8172>>, <<8178, 8180>>, <<8182, 8188>>,
     <<8450, 8450>>, <<8455, 8455>>, <<8458, 8467>>, <<8469, 8469>>,
     <<8473, 8477>>, <<8484, 8484>>, <<8486, 8486>>, <<8488, 8488>>,
     <<8490, 8493>>, <<8495, 8500>>, <<8505, 8505>>, <<8508, 8511>>,
     <<8517, 8521>>, <<8526, 8526>>, <<8544, 8575>>, <<8579, 8580>>,
     <<9398, 9449>>, <<11264, 11387>>, <<11390, 11492>>, <<11499, 11502>>,
     <<11506, 11507>>, <<11520, 11557>>, <<11559, 11559>>, <<11565, 11565>>,
     <<42560, 42605>>, <<42624, 42651>>, <<42786, 42863>>, <<42865, 42887>>,
     <<42891, 42894>>, <<42896, 42954>>, <<42960, 42961>>, <<42963, 42963>>,
     <<42965, 42969>>, <<42997, 42998>>, <<43002, 43002>>, <<43824, 43866>>,
     <<43872, 43880>>, <<43888, 43967>>, <<64256, 64262>>, <<64275, 64279>>,
     <<65313, 65338>>, <<65345, 65370>>, <<66560, 66639>>, <<66736, 66771>>,
     <<66776, 66811>>, <<66928, 66938>>, <<66940, 66954>>, <<66956, 66962>>,
     <<66964, 66965>>, <<66967, 66977>>, <<66979, 66993>>, <<66995, 67001>>,
     <<67003, 67004>>, <<68736, 68786>>, <<68800, 68850>>, <<71840, 71903>>,
     <<93760, 93823>>, <<119808, 119892>>, <<119894, 119964>>,
     <<119966, 119967>>, <<119970, 119970>>, <<119973, 119974>>,
     <<119977, 119980>>, <<119982, 119993>>, <<119995, 119995>>,
     <<119997, 120003>>, <<120005, 120069>>, <<120071, 120074>>,
     <<120077, 120084>>, <<120086, 120092>>, <<120094, 120121>>,
     <<120123, 120126>>, <<120128, 120132>>, <<120134, 120134>>,
     <<120138, 120144>>, <<120146, 120485>>, <<120488, 120512>>,
     <<120514, 120538>>, <<120540, 120570>>, <<120572, 120596>>,
     <<120598, 120628>>, <<120630, 120654>>, <<120656, 120686>>,
     <<120688, 120712>>, <<120714, 120744>>, <<120746, 120770>>,
     <<120772, 120779>>, <<122624, 122633>>, <<122635, 122654>>,
     <<125184, 125251>>, <<127280, 127305>>, <<127312, 127337>>,
     <<127344, 127369>>}

\* the case-ignorable characters
CaseIgnorableRanges ==
    {<<39, 39>>, <<46, 46>>, <<58, 58>>, <<94, 94>>, <<96, 96>>,
     <<168, 168>>, <<173, 173>>, <<175, 175>>, <<180, 180>>, <<183, 184>>,
     <<688, 879>>, <<884, 885>>, <<890, 890>>, <<900, 901>>, <<903, 903>>,
     <<1155, 1161>>, <<1369, 1369>>, <<1375, 1375>>, <<1425, 1469>>,
     <<1471, 1471>>, <<1473, 1474>>, <<1476, 1477>>, <<1479, 1479>>,
     <<1524, 1524>>, <<1536, 1541>>, <<1552, 1562>>, <<1564, 1564>>,
     <<1600, 1600>>, <<1611, 1631>>, <<1648, 1648>>, <<1750, 1757>>,
     <<1759, 1768>>, <<1770, 1773>>, <<1807, 1807>>, <<1809, 1809>>,
     <<1840, 1866>>, <<1958, 1968>>, <<2027, 2037>>, <<2042, 2042>>,
     <<2045, 2045>>, <<2070, 2093>>, <<2137, 2139>>, <<2184, 2184>>,
     <<2192, 2193>>, <<2200, 2207>>, <<2249, 2306>>, <<2362, 2362>>,
     <<2364, 2364>>, <<2369, 2376>>, <<2381, 2381>>, <<2385, 2391>>,
     <<2402, 2403>>, <<2417, 2417>>, <<2433, 2433>>, <<2492, 2492>>,
     <<2497, 2500>>, <<2509, 2509>>, <<2530, 2531>>, <<2558, 2558>>,
     <<2561, 2562>>, <<2620, 2620>>, <<2625, 2626>>, <<2631, 2632>>,
     <<2635, 2637>>, <<2641, 2641>>, <<2672, 2673>>, <<2677, 2677>>,
     <<2689, 2690>>, <<2748, 2748>>, <<2753, 2757>>, <<2759, 2760>>,
     <<2765, 2765>>, <<2786, 2787>>, <<2810, 2815>>, <<2817, 2817>>,
     <<2876, 2876>>, <<2879, 2879>>, <<2881, 2884>>, <<2893, 2893>>,
     <<2901, 2902>>, <<2914, 2915>>, <<2946, 2946>>, <<3008, 3008>>,
     <<3021, 3021>>, <<3072, 3072>>, <<3076, 3076>>, <<3132, 3132>>,
     <<3134, 3136>>, <<3142, 3144>>, <<3146, 3149>>, <<3157, 3158>>,
     <<3170, 3171>>, <<3201, 3201>>, <<3260, 3260>>, <<3263, 3263>>,
     <<3270, 3270>>, <<3276, 3277>>, <<3298, 3299>>, <<3328, 3329>>,
     <<3387, 3388>>, <<3393, 3396>>, <<3405, 3405>>, <<3426, 3427>>,
     <<3457, 3457>>, <<3530, 3530>>, <<3538, 3540>>, <<3542, 3542>>,
     <<3633, 3633>>, <<3636, 3642>>, <<3654, 3662>>, <<3761, 3761>>,
     <<3764, 3772>>, <<3782, 3782>>, <<3784, 3789>>, <<3864, 3865>>,
     <<3893, 3893>>, <<3895, 3895>>, <<3897, 3897>>, <<3953, 3966>>,
     <<3968, 3972>>, <<3974, 3975>>, <<3981, 3991>>, <<3993, 4028>>,
     <<4038, 4038>>, <<4141, 4144>>, <<4146, 4151>>, <<4153, 4154>>,
     <<4157, 4158>>, <<4184, 4185>>, <<4190, 4192>>, <<4209, 4212>>,
     <<4226, 4226>>, <<4229, 4230>>, <<4237, 4237>>, <<4253, 4253>>,
     <<4348, 4348>>, <<4957, 4959>>, <<5906, 5908>>, <<5938, 5939>>,
     <<5970, 5971>>, <<6002, 6003>>, <<6068, 6069>>, <<6071, 6077>>,
     <<6086, 6086>>, <<6089, 6099>>, <<6103, 6103>>, <<6109, 6109>>,
     <<6155, 6159>>, <<6211, 6211>>, <<6277, 6278>>, <<6313, 6313>>,
     <<6432, 6434>>, <<6439, 6440>>, <<6450, 6450>>, <<6457, 6459>>,
     <<6679, 6680>>, <<6683, 6683>>, <<6742, 6742>>, <<6744, 6750>>,
     <<6752, 6752>>, <<6754, 6754>>, <<6757, 6764>>, <<6771, 6780>>,
     <<6783, 6783>>, <<6823, 6823>>, <<6832, 6862>>, <<6912, 6915>>,
     <<6964, 6964>>, <<6966, 6970>>, <<6972, 6972>>, <<6978, 6978>>,
     <<7019, 7027>>, <<7040, 7041>>, <<7074, 7077>>, <<7080, 7081>>,
     <<7083, 7085>>, <<7142, 7142>>, <<7144, 7145>>, <<7149, 7149>>,
     <<7151, 7153>>, <<7212, 7219>>, <<7222, 7223>>, <<7288, 7293>>,
     <<7376, 7378>>, <<7380, 7392>>, <<7394, 7400>>, <<7405, 7405>>,
     <<7412, 7412>>, <<7416, 7417>>, <<7468, 7530>>, <<7544, 7544>>,
     <<7579, 7679>>, <<8125, 8125>>, <<8127, 8129>>, <<8141, 8143>>,
     <<8157, 8159>>, <<8173, 8175>>, <<8189, 8190>>, <<8203, 8207>>,
     <<8216, 8217>>, <<8228, 8228>>, <<8231, 8231>>, <<8234, 8238>>,
     <<8288, 8292>>, <<8294, 8303>>, <<8305, 8305>>, <<8319, 8319>>,
     <<8336, 8348>>, <<8400, 8432>>, <<11388, 11389>>, <<11503, 11505>>,
     <<11631, 11631>>, <<11647, 11647>>, <<11744, 11775>>, <<11823, 11823>>,
     <<12293, 12293>>, <<12330, 12333>>, <<12337, 12341>>, <<12347, 12347>>,
     <<12441, 12446>>, <<12540, 12542>>, <<40981, 40981>>, <<42232, 42237>>,
     <<42508, 42508>>, <<42607, 42610>>, <<42612, 42621>>, <<42623, 42623>>,
     <<42652, 42655>>, <<42736, 42737>>, <<42752, 42785>>, <<42864, 42864>>,
     <<42888, 42890>>, <<42994, 42996>>, <<43000, 43001>>, <<43010, 43010>>,
     <<43014, 43014>>, <<43019, 43019>>, <<43045, 43046>>, <<43052, 43052>>,
     <<43204, 43205>>, <<43232, 43249>>, <<43263, 43263>>, <<43302, 43309>>,
     <<43335, 43345>>, <<43392, 43394>>, <<43443, 43443>>, <<43446, 43449>>,
     <<43452, 43453>>, <<43471, 43471>>, <<43493, 43494>>, <<43561, 43566>>,
     <<43569, 43570>>, <<43573, 43574>>, <<43587, 43587>>, <<43596, 43596>>,
     <<43632, 43632>>, <<43644, 43644>>, <<43696, 43696>>, <<43698, 43700>>,
     <<43703, 43704>>, <<43710, 43711>>, <<43713, 43713>>, <<43741, 43741>>,
     <<43756, 43757>>, <<43763, 43764>>, <<43766, 43766>>, <<43867, 43871>>,
     <<43881, 43883>>, <<44005, 44005>>, <<44008, 44008>>, <<44013, 44013>>,
     <<64286, 64286>>, <<64434, 64450>>, <<65024, 65039>>, <<65043, 65043>>,
     <<65056, 65071>>, <<65106, 65106>>, <<65109, 65109>>, <<65279, 65279>>,
     <<65287, 65287>>, <<65294, 65294>>, <<65306, 65306>>, <<65342, 65342>>,
     <<65344, 65344>>, <<65392, 65392>>, <<65438, 65439>>, <<65507, 65507>>,
     <<65529, 65531>>, <<66045, 66045>>, <<66272, 66272>>, <<66422, 66426>>,
     <<67456, 67461>>, <<67463, 67504>>, <<67506, 67514>>, <<68097, 68099>>,
     <<68101, 68102>>, <<68108, 68111>>, <<68152, 68154>>, <<68159, 68159>>,
     <<68325, 68326>>, <<68900, 68903>>, <<69291, 69292>>, <<69446, 69456>>,
     <<69506, 69509>>, <<69633, 69633>>, <<69688, 69702>>, <<69744, 69744>>,
     <<69747, 69748>>, <<69759, 69761>>, <<69811, 69814>>, <<69817, 69818>>,
     <<69821, 69821>>, <<69826, 69826>>, <<69837, 69837>>, <<69888, 69890>>,
     <<69927, 69931>>, <<69933, 69940>>, <<70003, 70003>>, <<70016, 70017>>,
     <<70070, 70078>>, <<70089, 70092>>, <<70095, 70095>>, <<70191, 70193>>,
     <<70196, 70196>>, <<70198, 70199>>, <<70206, 70206>>, <<70367, 70367>>,
     <<70371, 70378>>, <<70400, 70401>>, <<70459, 70460>>, <<70464, 70464>>,
     <<70502, 70508>>, <<70512, 70516>>, <<70712, 70719>>, <<70722, 70724>>,
     <<70726, 70726>>, <<70750, 70750>>, <<70835, 70840>>, <<70842, 70842>>,
     <<70847, 70848>>, <<70850, 70851>>, <<71090, 71093>>, <<71100, 71101>>,
     <<71103, 71104>>, <<71132, 71133>>, <<71219, 71226>>, <<71229, 71229>>,
     <<71231, 71232>>, <<71339, 71339>>, <<71341, 71341>>, <<71344, 71349>>,
     <<71351, 71351>>, <<71453, 71455>>, <<71458, 71461>>, <<71463, 71467>>,
     <<71727, 71735>>, <<71737, 71738>>, <<71995, 71996>>, <<71998, 71998>>,
     <<72003, 72003>>, <<72148, 72151>>, <<72154, 72155>>, <<72160, 72160>>,
     <<72193, 72202>>, <<72243, 72248>>, <<72251, 72254>>, <<72263, 72263>>,
     <<72273, 72278>>, <<72281, 72283>>, <<72330, 72342>>, <<72344, 72345>>,
     <<72752, 72758>>, <<72760, 72765>>, <<72767, 72767>>, <<72850, 72871>>,
     <<72874, 72880>>, <<72882, 72883>>, <<72885, 72886>>, <<73009, 73014>>,
     <<73018, 73018>>, <<73020, 73021>>, <<73023, 73029>>, <<73031, 73031>>,
     <<73104, 73105>>, <<73109, 73109>>, <<73111, 73111>>, <<73459, 73460>>,
     <<78896, 78904>>, <<92912, 92916>>, <<92976, 92982>>, <<92992, 92995>>,
     <<94031, 94031>>, <<94095, 94111>>, <<94176, 94177>>, <<94179, 94180>>,
     <<110576, 110579>>, <<110581, 110587>>, <<110589, 110590>>,
     <<113821, 113822>>, <<113824, 113827>>, <<118528, 118573>>,
     <<118576, 118598>>, <<119143, 119145>>, <<119155, 119170>>,
     <<119173, 119179>>, <<119210, 119213>>, <<119362, 119364>>,
     <<121344, 121398>>, <<121403, 121452>>, <<121461, 121461>>,
     <<121476, 121476>>, <<121499, 121503>>, <<121505, 121519>>,
     <<122880, 122886>>, <<122888, 122904>>, <<122907, 122913>>,
     <<122915, 122916>>, <<122918, 122922>>, <<123184, 123197>>,
     <<123566, 123566>>, <<123628, 123631>>, <<125136, 125142>>,
     <<125252, 125259>>, <<127995, 127999>>, <<917505, 917505>>,
     <<917536, 917631>>, <<917760, 917999>>}

----------------------------------------------------------------------------
(* Natural numbers of any size *)

\* A natural number is the sequence of its digits in base 32768, the
\* least significant first, without leading zero digits: <<>> is 0.
\* Sequences are worked on by halves, so that the depth of the recursion
\* is the logarithm of their length.

RECURSIVE BigOfNat(_)
BigOfNat(n) ==
    IF n = 0 THEN <<>> ELSE <<n % 32768>> \o BigOfNat(n \div 32768)

\* x without the zero digits at its high end
BigNorm(x) ==
    LET nz == {i \in 1..Len(x) : x[i] # 0}
    IN  IF nz = {} THEN <<>>
        ELSE SubSeq(x, 1, CHOOSE i \in nz : \A j \in nz : j <= i)

\* digit i of x, 0 past its high end
DigitAt(x, i) == IF i <= Len(x) THEN x[i] ELSE 0

\* digits lo..hi of x * k + c and the carry out of them
RECURSIVE MulAddRange(_, _, _, _, _)
MulAddRange(x, k, c, lo, hi) ==
    IF lo > hi THEN [d |-> <<>>, c |-> c]
    ELSE IF lo = hi
    THEN LET t == x[lo] * k + c
         IN  [d |-> <<t % 32768>>, c |-> t \div 32768]
    ELSE LET mid  == (lo + hi) \div 2
             low  == MulAddRange(x, k, c, lo, mid)
             high == MulAddRange(x, k, low.c, mid + 1, hi)
         IN  [d |-> low.d \o high.d, c |-> high.c]

\* x * k + c for 0 <= k <= 32768 and 0 <= c < 32768
BigMulAdd(x, k, c) ==
    LET r == MulAddRange(x, k, c, 1, Len(x))
    IN  BigNorm(r.d \o BigOfNat(r.c))

\* digits lo..hi of x + y + c and the carry out of them
RECURSIVE AddRange(_, _, _, _, _)
AddRange(x, y, c, lo, hi) ==
    IF lo > hi THEN [d |-> <<>>, c |-> c]
    ELSE IF lo = hi
    THEN LET t == DigitAt(x, lo) + DigitAt(y, lo) + c
         IN  [d |-> <<t % 32768>>, c |-> t \div 32768]
    ELSE LET mid  == (lo + hi) \div 2
             low  == AddRange(x, y, c, lo, mid)
             high == AddRange(x, y, low.c, mid + 1, hi)
         IN  [d |-> low.d \o high.d, c |-> high.c]

\* x + y
BigAdd(x, y) ==
    LET r == AddRange(x, y, 0, 1, IF Len(x) > Len(y) THEN Len(x) ELSE Len(y))
    IN  BigNorm(r.d \o BigOfNat(r.c))

\* digits lo..hi of x - y - b and the borrow out of them
RECURSIVE SubRange(_, _, _, _, _)
SubRange(x, y, b, lo, hi) ==
    IF lo > hi THEN [d |-> <<>>, b |-> b]
    ELSE IF lo = hi
    THEN LET t == x[lo] - DigitAt(y, lo) - b
         IN  [d |-> <<(t + 32768) % 32768>>, b |-> IF t < 0 THEN 1 ELSE 0]
    ELSE LET mid  == (lo + hi) \div 2
             low  == SubRange(x, y, b, lo, mid)
             high == SubRange(x, y, low.b, mid + 1, hi)
         IN  [d |-> low.d \o high.d, b |-> high.b]

\* x - y for x >= y
BigSub(x, y) == BigNorm(SubRange(x, y, 0, 1, Len(x)).d)

\* -1, 0 or 1 as x is less than, equal to or greater than y
BigCmp(x, y) ==
    IF Len(x) # Len(y) THEN (IF Len(x) < Len(y) THEN -1 ELSE 1)
    ELSE LET diff == {i \in 1..Len(x) : x[i] # y[i]}
         IN  IF diff = {} THEN 0
             ELSE LET i == CHOOSE i \in diff : \A j \in diff : j <= i
                  IN  IF x[i] < y[i] THEN -1 ELSE 1

\* x times the digits lo..hi of y, each at its place
RECURSIVE MulRange(_, _, _, _)
MulRange(x, y, lo, hi) ==
    IF lo > hi THEN <<>>
    ELSE IF lo = hi
    THEN (IF y[lo] = 0 THEN <<>>
          ELSE [i \in 1..(lo - 1) |-> 0] \o BigMulAdd(x, y[lo], 0))
    ELSE LET mid == (lo + hi) \div 2
         IN  BigAdd(MulRange(x, y, lo, mid), MulRange(x, y, mid + 1, hi))

\* x * y
BigMul(x, y) == IF x = <<>> THEN <<>> ELSE MulRange(x, y, 1, Len(y))

RECURSIVE Pow2(_)
Pow2(k) == IF k = 0 THEN 1 ELSE 2 * Pow2(k - 1)

RECURSIVE BitLenDigit(_)
BitLenDigit(n) == IF n = 0 THEN 0 ELSE 1 + BitLenDigit(n \div 2)

\* the number of binary digits of x
BitLen(x) ==
    IF x = <<>> THEN 0 ELSE 15 * (Len(x) - 1) + BitLenDigit(x[Len(x)])

\* x * 2^s
Shl(x, s) ==
    LET r == s % 15
        cut == Pow2(15 - r)
    IN  [i \in 1..(s \div 15) |-> 0]
          \o BigNorm([i \in 1..(Len(x) + 1) |->
                        (DigitAt(x, i) % cut) * Pow2(r)
                          + (IF i = 1 THEN 0 ELSE x[i - 1] \div cut)])

\* x \div 2^s
Shr(x, s) ==
    LET r == s % 15
        w == s \div 15
    IN  BigNorm([i \in 1..(Len(x) - w) |->
                   x[i + w] \div Pow2(r)
                     + (DigitAt(x, i + w + 1) % Pow2(r)) * Pow2(15 - r)])

RECURSIVE TrailingZerosDigit(_)
TrailingZerosDigit(n) ==
    IF n % 2 = 1 THEN 0 ELSE 1 + TrailingZerosDigit(n \div 2)

\* the number of zero binary digits at the low end of x > 0
TrailingZeros(x) ==
    LET i == CHOOSE i \in 1..Len(x) :
               x[i] # 0 /\ \A j \in 1..(i - 1) : x[j] = 0
    IN  15 * (i - 1) + TrailingZerosDigit(x[i])

IsOdd(x) == x # <<>> /\ Head(x) % 2 = 1

\* 10^k
RECURSIVE BigPow10(_)
BigPow10(k) ==
    IF k = 0 THEN <<1>>
    ELSE LET h  == BigPow10(k \div 2)
             sq == BigMul(h, h)
         IN  IF k % 2 = 1 THEN BigMulAdd(sq, 10, 0) ELSE sq

----------------------------------------------------------------------------
(* Python floats: IEEE 754 binary64 *)

\* A float is [kind, neg, m, e]: kind "fin" with the value
\* (-1)^neg * m * 2^e, m a natural number that is odd, or 0 with e = 0;
\* kind "inf" (m = 0, e = 0); or kind "nan" (neg = FALSE, m = 0, e = 0).

Fin(neg, m, e) == [kind |-> "fin", neg |-> neg, m |-> m, e |-> e]
Inf(neg) == [kind |-> "inf", neg |-> neg, m |-> <<>>, e |-> 0]
NaN == [kind |-> "nan", neg |-> FALSE, m |-> <<>>, e |-> 0]
FloatZero(neg) == Fin(neg, <<>>, 0)

\* the largest finite float, (2^53 - 1) * 2^971
MaxFloat(neg) == Fin(neg, <<32767, 32767, 32767, 255>>, 971)

\* q * 2^e with the zero binary digits at the low end of q moved into e
Canon(neg, q, e) ==
    IF q = <<>> THEN FloatZero(neg)
    ELSE LET z == TrailingZeros(q) IN Fin(neg, Shr(q, z), e + z)

\* long division of n by d in base 32768, for a d whose highest digit is
\* 16384 or more: st.r is the remainder so far, st.q the quotient digits
\* found so far and st.i the place of the next digit of n to bring down.
\* The quotient digit is estimated from the two highest digits of the
\* remainder and the highest digit of d, which gives it or up to 2 more
\* (Knuth, The Art of Computer Programming, 4.3.1, Theorem B)
RECURSIVE DivDigits(_, _, _)
DivDigits(st, n, d) ==
    IF st.i = 0 THEN st
    ELSE LET r    == BigNorm(<<n[st.i]>> \o st.r)
             top  == DigitAt(r, Len(d) + 1) * 32768 + DigitAt(r, Len(d))
             qhat == IF top \div d[Len(d)] > 32767 THEN 32767
                     ELSE top \div d[Len(d)]
             k    == IF BigCmp(BigMulAdd(d, qhat, 0), r) <= 0 THEN qhat
                     ELSE IF BigCmp(BigMulAdd(d, qhat - 1, 0), r) <= 0
                     THEN qhat - 1
                     ELSE qhat - 2
         IN  DivDigits([r |-> BigSub(r, BigMulAdd(d, k, 0)),
                        q |-> <<k>> \o st.q,
                        i |-> st.i - 1], n, d)

\* n \div d as q and twice the remainder as n, for n >= d > 0 and a d whose
\* highest digit is 16384 or more
Divide(n, d) ==
    LET st == DivDigits([r |-> SubSeq(n, Len(n) - Len(d) + 2, Len(n)),
                         q |-> <<>>,
                         i |-> Len(n) - Len(d) + 1], n, d)
    IN  [q |-> BigNorm(st.q), n |-> BigMulAdd(st.r, 2, 0)]

\* the division of n1 by d1, two numbers of as many binary digits, for
\* the quotient (n1 / d1) * 2^e: ex is the exponent that brings the
\* quotient into 1 <= quotient < 2, p the number of binary digits a float
\* of that exponent keeps (53, fewer for a subnormal, none or less below
\* them), r.q the first p binary digits of the quotient and r.n twice the
\* remainder they leave, to be compared with d, which is d1 times the
\* power of two that brings its highest digit to 16384 or more
Aligned(n1, d1, e) ==
    LET lt == BigCmp(n1, d1) < 0
        ex == e - (IF lt THEN 1 ELSE 0)
        p  == IF ex >= -1022 THEN 53 ELSE ex + 1075
        s  == (15 - (BitLen(d1) % 15)) % 15
    IN  [ex |-> ex, p |-> p, d |-> Shl(d1, s),
         r  |-> IF ex > 1023 \/ p < 0 THEN [n |-> <<1>>, q |-> <<>>]
                ELSE IF p = 0
                THEN [n |-> Shl(n1, s + (IF lt THEN 1 ELSE 0)), q |-> <<>>]
                ELSE Divide(Shl(n1, s + p - (IF lt THEN 0 ELSE 1)),
                            Shl(d1, s))]

\* the division for (n / d) * 2^e2, n > 0 and d > 0
Scaled(n, d, e2) ==
    LET s0 == BitLen(n) - BitLen(d)
    IN  Aligned(IF s0 < 0 THEN Shl(n, 0 - s0) ELSE n,
                IF s0 > 0 THEN Shl(d, s0) ELSE d, e2 + s0)

\* the float for the quotient of the division sc with the sign neg,
\* rounded as mode says: "nearest" (ties to even, as IEEE 754 arithmetic
\* and float() round), "down" (towards zero) or "up" (away from zero)
Round(neg, sc, mode) ==
    IF sc.ex > 1023
    THEN (IF mode = "down" THEN MaxFloat(neg) ELSE Inf(neg))
    ELSE IF sc.p < 0
    THEN (IF mode = "up" THEN Fin(neg, <<1>>, -1074) ELSE FloatZero(neg))
    ELSE LET c    == BigCmp(sc.r.n, sc.d)
             up   == CASE mode = "nearest" ->
                            c > 0 \/ (c = 0 /\ IsOdd(sc.r.q))
                       [] mode = "down" -> FALSE
                       [] mode = "up" -> sc.r.n # <<>>
             q    == IF up THEN BigAdd(sc.r.q, <<1>>) ELSE sc.r.q
             unit == sc.ex - (sc.p - 1)
         IN  IF BitLen(q) + unit > 1024
             THEN (IF mode = "down" THEN MaxFloat(neg) ELSE Inf(neg))
             ELSE Canon(neg, q, unit)

\* the float of a natural number of the model
FloatOfNat(n) ==
    IF n = 0 THEN FloatZero(FALSE)
    ELSE Round(FALSE, Scaled(BigOfNat(n), <<1>>, 0), "nearest")

\* the float of a decimal literal with one digit after the point, given
\* as its number of tenths: 18.5 is Tenths(185)
Tenths(n) == Round(FALSE, Scaled(BigOfNat(n), <<10>>, 0), "nearest")

\* -1, 0 or 1 as |a| is less than, equal to or greater than |b|, for
\* finite a and b
MagCmp(a, b) ==
    IF a.m = <<>> \/ b.m = <<>>
    THEN (IF a.m = b.m THEN 0 ELSE IF a.m = <<>> THEN -1 ELSE 1)
    ELSE LET ta == BitLen(a.m) + a.e
             tb == BitLen(b.m) + b.e
         IN  IF ta # tb THEN (IF ta < tb THEN -1 ELSE 1)
             ELSE IF a.e >= b.e THEN BigCmp(Shl(a.m, a.e - b.e), b.m)
             ELSE BigCmp(a.m, Shl(b.m, b.e - a.e))

\* -1, 0 or 1 as a is less than, equal to or greater than b, for floats
\* that are not nan; the two zeros are equal
FloatCmp(a, b) ==
    LET sa == IF a.kind = "fin" /\ a.m = <<>> THEN 0
              ELSE IF a.neg THEN -1 ELSE 1
        sb == IF b.kind = "fin" /\ b.m = <<>> THEN 0
              ELSE IF b.neg THEN -1 ELSE 1
        mag == IF a.kind = "inf" /\ b.kind = "inf" THEN 0
               ELSE IF a.kind = "inf" THEN 1
               ELSE IF b.kind = "inf" THEN -1
               ELSE MagCmp(a, b)
    IN  IF sa # sb THEN (IF sa < sb THEN -1 ELSE 1)
        ELSE IF sa = 0 THEN 0
        ELSE sa * mag

\* a < b and a <= b on floats: false when either is a nan
FloatLt(a, b) == a.kind # "nan" /\ b.kind # "nan" /\ FloatCmp(a, b) < 0
FloatLe(a, b) == a.kind # "nan" /\ b.kind # "nan" /\ FloatCmp(a, b) <= 0

IsZero(a) == a.kind = "fin" /\ a.m = <<>>

\* a / b for a float b that is not zero: the IEEE 754 quotient
FloatDiv(a, b) ==
    IF a.kind = "nan" \/ b.kind = "nan" THEN NaN
    ELSE IF a.kind = "inf"
    THEN (IF b.kind = "inf" THEN NaN ELSE Inf(a.neg # b.neg))
    ELSE IF b.kind = "inf" \/ a.m = <<>> THEN FloatZero(a.neg # b.neg)
    ELSE Round(a.neg # b.neg, Scaled(a.m, b.m, a.e - b.e), "nearest")

\* pow() of the C library is not correctly rounded: glibc gives its error
\* as at most 0.511 units of the last place for the exponential and
\* 1.3 * 2^-68 relative for the logarithm, so the square of a number comes
\* out as either neighbour when it lies within 0.011 + (|ex| + 1) / 36000
\* of a unit from the middle between two floats (2.759 ** 2 differs from
\* 2.759 * 2.759 in the last place under glibc 2.36).  NearTie says so of
\* the quotient of the division sc
NearTie(sc) ==
    /\ sc.ex <= 1023 /\ sc.p >= 1
    /\ LET gap  == IF BigCmp(sc.r.n, sc.d) >= 0 THEN BigSub(sc.r.n, sc.d)
                   ELSE BigSub(sc.d, sc.r.n)
           room == 397 + (IF sc.ex < 0 THEN 0 - sc.ex ELSE sc.ex)
       IN  BigCmp(BigMulAdd(gap, 18000, 0), BigMulAdd(sc.d, room, 0)) < 0

\* a ** 2 for a float a: the floats pow(a, 2.0) can be
FloatSquare(a) ==
    IF a.kind = "nan" THEN {NaN}
    ELSE IF a.kind = "inf" THEN {Inf(FALSE)}
    ELSE IF a.m = <<>> THEN {FloatZero(FALSE)}
    ELSE LET sc == Scaled(BigMul(a.m, a.m), <<1>>, 2 * a.e)
         IN  {Round(FALSE, sc, mode) :
                mode \in IF NearTie(sc) THEN {"down", "up"} ELSE {"nearest"}}

----------------------------------------------------------------------------
(* Text *)

\* the ASCII characters from U+0020 to U+005F
Ascii ==
    <<" ", "!", "\"", "#", "$", "%", "&", "'", "(", ")", "*", "+", ",", "-",
      ".", "/", "0", "1", "2", "3", "4", "5", "6", "7", "8", "9", ":", ";",
      "<", "=", ">", "?", "@", "A", "B", "C", "D", "E", "F", "G", "H", "I",
      "J", "K", "L", "M", "N", "O", "P", "Q", "R", "S", "T", "U", "V", "W",
      "X", "Y", "Z", "[", "\\", "]", "^", "_">>

\* the ASCII characters from U+0061 to U+007A
AsciiSmall ==
    <<"a", "b", "c", "d", "e", "f", "g", "h", "i", "j", "k", "l", "m", "n",
      "o", "p", "q", "r", "s", "t", "u", "v", "w", "x", "y", "z">>

\* ord(c) for an ASCII character of these two tables
ord(c) ==
    IF \E i \in 1..Len(AsciiSmall) : AsciiSmall[i] = c
    THEN 96 + CHOOSE i \in 1..Len(AsciiSmall) : AsciiSmall[i] = c
    ELSE 31 + CHOOSE i \in 1..Len(Ascii) : Ascii[i] = c

\* the text of a sequence of printable ASCII characters
Text(chars) == [i \in 1..Len(chars) |-> ord(chars[i])]

IsDigitChar(c) == (48 <= c /\ c <= 57) \/ (c > 127 /\ InRanges(c, DigitRanges))

IsDecimal(c) ==
    (48 <= c /\ c <= 57) \/ (c > 127 /\ InRanges(c, DecimalRanges))

\* the digit a decimal digit character stands for
DecimalValue(c) ==
    LET r == CHOOSE r \in DecimalRanges : r[1] <= c /\ c <= r[2]
    IN  (c - r[1]) % 10

IsSpace(c) == c \in SpaceChars

IsCased(c) == c = 931 \/ InRanges(c, CasedRanges)

\* the final-sigma rule of str.lower(): U+03A3 at place i is the last
\* letter of a word when a cased character comes before it and none comes
\* after it, case-ignorable characters passed over
FinalSigma(s, i) ==
    /\ \E j \in 1..(i - 1) :
         /\ IsCased(s[j])
         /\ \A k \in (j + 1)..(i - 1) : InRanges(s[k], CaseIgnorableRanges)
    /\ ~\E j \in (i + 1)..Len(s) :
         /\ IsCased(s[j])
         /\ \A k \in (i + 1)..(j - 1) : InRanges(s[k], CaseIgnorableRanges)

\* str.lower() of the character at place i of s
LowerChar(s, i) ==
    LET c == s[i]
    IN  IF c < 128 THEN <<(IF 65 <= c /\ c <= 90 THEN c + 32 ELSE c)>>
        ELSE IF c = 304 THEN <<105, 775>>
        ELSE IF c = 931 THEN <<(IF FinalSigma(s, i) THEN 962 ELSE 963)>>
        ELSE IF \E r \in LowerRuns :
                  r[1] <= c /\ c <= r[2] /\ (c - r[1]) % r[3] = 0
        THEN LET r == CHOOSE r \in LowerRuns :
                        r[1] <= c /\ c <= r[2] /\ (c - r[1]) % r[3] = 0
             IN  <<c + r[4]>>
        ELSE <<c>>

\* the texts of ss[lo..hi], one after the other
RECURSIVE Concat(_, _, _)
Concat(ss, lo, hi) ==
    IF lo > hi THEN <<>>
    ELSE IF lo = hi THEN ss[lo]
    ELSE LET mid == (lo + hi) \div 2
         IN  Concat(ss, lo, mid) \o Concat(ss, mid + 1, hi)

\* str.lower()
lower(s) == Concat([i \in 1..Len(s) |-> LowerChar(s, i)], 1, Len(s))

\* str.isdigit(): non-empty and every character a digit character
isdigit(s) == Len(s) > 0 /\ \A i \in 1..Len(s) : IsDigitChar(s[i])

\* the whitespace int() and float() strip from both ends of their argument
strip(s) ==
    LET ink == {i \in 1..Len(s) : ~IsSpace(s[i])}
    IN  IF ink = {} THEN <<>>
        ELSE SubSeq(s, CHOOSE i \in ink : \A j \in ink : i <= j,
                       CHOOSE i \in ink : \A j \in ink : j <= i)

\* a run of decimal digits, single underscores allowed between two digits
DigitRun(s) ==
    /\ Len(s) > 0
    /\ \A i \in 1..Len(s) :
         \/ IsDecimal(s[i])
         \/ /\ s[i] = 95
            /\ 1 < i /\ i < Len(s)
            /\ IsDecimal(s[i - 1]) /\ IsDecimal(s[i + 1])

\* the digits of a digit run, as numbers
Digits(s) ==
    LET d == SelectSeq(s, IsDecimal)
    IN  [i \in 1..Len(d) |-> DecimalValue(d[i])]

\* ds without the zeros at its front
DropZeros(ds) ==
    LET nz == {i \in 1..Len(ds) : ds[i] # 0}
    IN  IF nz = {} THEN <<>>
        ELSE SubSeq(ds, CHOOSE i \in nz : \A j \in nz : i <= j, Len(ds))

\* the natural number the digits ds[lo..hi] write
RECURSIVE BigOfDigitsRange(_, _, _)
BigOfDigitsRange(ds, lo, hi) ==
    IF lo > hi THEN <<>>
    ELSE IF lo = hi THEN BigOfNat(ds[lo])
    ELSE LET mid == (lo + hi) \div 2
         IN  BigAdd(BigMul(BigOfDigitsRange(ds, lo, mid), BigPow10(hi - mid)),
                    BigOfDigitsRange(ds, mid + 1, hi))

BigOfDigits(ds) == BigOfDigitsRange(ds, 1, Len(ds))

\* the result of a conversion that raises ValueError
ValueError == [ok |-> FALSE]

\* A Python int is [neg, m], the number (-1)^neg * m, with neg false for 0.
IntOf(neg, m) == [neg |-> neg /\ m # <<>>, m |-> m]

IntOfNat(n) == IntOf(FALSE, BigOfNat(n))

\* a <= b on ints
IntLe(a, b) ==
    IF a.neg # b.neg THEN a.neg
    ELSE IF a.neg THEN BigCmp(a.m, b.m) >= 0
    ELSE BigCmp(a.m, b.m) <= 0

IntLt(a, b) == IntLe(a, b) /\ a # b

\* the number of the model for an int from 0 to 2^30 - 1
NatOf(a) ==
    IF a.m = <<>> THEN 0
    ELSE a.m[1] + (IF Len(a.m) > 1 THEN 32768 * a.m[2] ELSE 0)

\* lo <= a <= hi for an int a and numbers lo, hi of the model, 0 <= lo
Between(lo, a, hi) ==
    ~a.neg /\ Len(a.m) <= 2 /\ lo <= NatOf(a) /\ NatOf(a) <= hi

\* int(text): whitespace stripped, an optional sign, a digit run of at most
\* 4300 digits (sys.int_info.default_max_str_digits); anything else raises
\* ValueError
int(text) ==
    LET s    == strip(text)
        sgn  == Len(s) > 0 /\ Head(s) \in {43, 45}
        body == IF sgn THEN Tail(s) ELSE s
    IN  IF DigitRun(body) /\ Len(Digits(body)) <= 4300
        THEN [ok  |-> TRUE,
              val |-> IntOf(sgn /\ Head(s) = 45, BigOfDigits(Digits(body)))]
        ELSE ValueError

\* place of the first character of s that is in set, or 0
FirstOf(s, charset) ==
    IF \E i \in 1..Len(s) : s[i] \in charset
    THEN CHOOSE i \in 1..Len(s) :
           s[i] \in charset /\ \A j \in 1..(i - 1) : s[j] \notin charset
    ELSE 0

\* the number a sequence of digits writes, or 100000000 when it is more
RECURSIVE SmallVal(_)
SmallVal(ds) ==
    IF ds = <<>> THEN 0
    ELSE 10 * SmallVal(SubSeq(ds, 1, Len(ds) - 1)) + ds[Len(ds)]

CappedVal(ds) ==
    IF Len(DropZeros(ds)) > 8 THEN 100000000 ELSE SmallVal(DropZeros(ds))

AsciiLower(s) ==
    [i \in 1..Len(s) |-> IF 65 <= s[i] /\ s[i] <= 90 THEN s[i] + 32 ELSE s[i]]

\* float() of digits.digits e exponent: sig are the digits without leading
\* zeros, e10 the power of ten they are to be multiplied by.  A number of
\* 10^309 or more is inf, one below 10^-324 is zero; the others are rounded
\* to the nearest float
FloatOfDecimal(neg, sig, e10) ==
    IF sig = <<>> THEN FloatZero(neg)
    ELSE IF Len(sig) - 1 + e10 >= 309 THEN Inf(neg)
    ELSE IF Len(sig) + e10 <= -324 THEN FloatZero(neg)
    ELSE Round(neg,
               Scaled(BigMul(BigOfDigits(sig),
                             BigPow10(IF e10 > 0 THEN e10 ELSE 0)),
                      BigPow10(IF e10 < 0 THEN 0 - e10 ELSE 0), 0),
               "nearest")

\* float() of a mantissa and the text after its e or E, if it has one
\* (hasExp): digits with an optional fraction, and an exponent of an
\* optional sign and digits
FloatOfParts(neg, mant, etxt, hasExp) ==
    LET esgn == Len(etxt) > 0 /\ Head(etxt) \in {43, 45}
        edig == IF esgn THEN Tail(etxt) ELSE etxt
        dot  == FirstOf(mant, {46})
        ip   == IF dot = 0 THEN mant ELSE SubSeq(mant, 1, dot - 1)
        fp   == IF dot = 0 THEN <<>> ELSE SubSeq(mant, dot + 1, Len(mant))
    IN  IF /\ Len(ip) + Len(fp) > 0
           /\ ip = <<>> \/ DigitRun(ip)
           /\ fp = <<>> \/ DigitRun(fp)
           /\ ~hasExp \/ DigitRun(edig)
        THEN [ok  |-> TRUE,
              val |-> FloatOfDecimal(
                        neg, DropZeros(Digits(ip) \o Digits(fp)),
                        (IF ~hasExp THEN 0
                         ELSE IF esgn /\ Head(etxt) = 45
                         THEN 0 - CappedVal(Digits(edig))
                         ELSE CappedVal(Digits(edig))) - Len(Digits(fp)))]
        ELSE ValueError

\* float() of a text without its sign: inf, infinity or nan in any case,
\* or a number
FloatOfBody(neg, body) ==
    LET epos == FirstOf(body, {69, 101})
    IN  IF AsciiLower(body)
             \in {Text(<<"i", "n", "f">>),
                  Text(<<"i", "n", "f", "i", "n", "i", "t", "y">>)}
        THEN [ok |-> TRUE, val |-> Inf(neg)]
        ELSE IF AsciiLower(body) = Text(<<"n", "a", "n">>)
        THEN [ok |-> TRUE, val |-> NaN]
        ELSE FloatOfParts(
               neg,
               IF epos = 0 THEN body ELSE SubSeq(body, 1, epos - 1),
               IF epos = 0 THEN <<>> ELSE SubSeq(body, epos + 1, Len(body)),
               epos # 0)

\* float(text): whitespace stripped, an optional sign, then inf, infinity
\* or nan in any case, or digits with an optional fraction and an optional
\* exponent; anything else raises ValueError
float(text) ==
    LET s   == strip(text)
        sgn == Len(s) > 0 /\ Head(s) \in {43, 45}
    IN  FloatOfBody(sgn /\ Head(s) = 45, IF sgn THEN Tail(s) ELSE s)

\* the places of the character c in s, in order
PlacesOf(s, c) ==
    LET at == {i \in 1..Len(s) : s[i] = c}
    IN  [k \in 1..Cardinality(at) |->
           CHOOSE i \in at : Cardinality({j \in at : j < i}) = k - 1]

\* str.split(sep) for a separator of one character: the fields between
\* separators, empty fields included
split(s, sep) ==
    LET at == PlacesOf(s, sep[1])
    IN  [k \in 1..(Len(at) + 1) |->
           SubSeq(s, (IF k = 1 THEN 0 ELSE at[k - 1]) + 1,
                     (IF k > Len(at) THEN Len(s) + 1 ELSE at[k]) - 1)]

\* set(list)
set(l) == {l[i] : i \in 1..Len(l)}

----------------------------------------------------------------------------
(* The program's constants *)

body_parts == <<"Chest", "Back", "Arms", "Shoulders", "Legs">>

exercises ==
    [p \in set(body_parts) |->
       CASE p = "Chest" ->
              <<"Incline Smith Press", "Close Grip Flat Press",
                "Wide Grip Flat Press", "Decline Chest Press", "Pec Deck Fly",
                "High-To-Low Cable Fly", "Mid Cable Fly",
                "Low-To-High Cable Fly", "Bench Press",
                "Incline Machine Press">>
         [] p = "Back" ->
              <<"Lat Pull Down", "Lat Pull Over", "Seated Lat Pull Over",
                "Chest Supported Row", "Chest Supported T-Bar Row",
                "Rear Delts Fly", "Face Pulls", "Hyper-extensions",
                "Single Cable Lat Pull Over", "Barbell Row", "Cable Rows">>
         [] p = "Arms" ->
              <<"Bicep Curl (Free Weights)", "Hammer Curls (Free Weights)",
                "Bicep Curl (Cables)", "Bicep Curls (Machine)",
                "Hammer Curls (Cable)", "Tricep Pushdown (Machine)",
                "Tricep Pushdown (Rope)", "Tricep Pushdown (V-Bar)",
                "Tricep Pushdown (Easy Bar)", "Tricep Pushdown (Straight Bar)",
                "Single Tricep Pushdown", "Straight Bar Cable Curl",
                "Uni-Lateral Cable Curl", "Wrist Curls">>
         [] p = "Shoulders" ->
              <<"Lateral Raises (Free Weights)", "Cable Lateral Raise",
                "Machine Lateral Raise", "Shoulder Press Machine",
                "Rear Delt Machine", "Cable Rear Delt">>
         [] p = "Legs" ->
              <<"Leg Press", "Hack Squat", "Bulgarian Split Squat",
                "Leg Extension", "Hamstring Curl Machine",
                "Hamstring Curl (Free Weights)", "Abductors",
                "Standing Calf Raise", "Seated Calf Raise", "RDL's">>]

headers == <<"Date", "Height (cm)", "Weight (kg)", "BMI", "BMI Category",
             "Trained Body Part", "Exercise", "Weight (kg)", "Reps", "Sets">>

----------------------------------------------------------------------------
(* calculate_bmi *)

\* the float literals of lines 8 to 14
Hundred == FloatOfNat(100)
T18_5 == Tenths(185)
T24_9 == Tenths(249)
T25 == FloatOfNat(25)
T29_9 == Tenths(299)

\* lines 10-17: the if/elif/else chain; every comparison with a nan is false
Category(bmi) ==
    IF FloatLt(bmi, T18_5) THEN "Underweight"
    ELSE IF FloatLe(T18_5, bmi) /\ FloatLe(bmi, T24_9) THEN "Normal weight"
    ELSE IF FloatLe(T25, bmi) /\ FloatLe(bmi, T29_9) THEN "Overweight"
    ELSE "Obesity"

\* calculate_bmi(weight, height_cm): what the call can come to, the tuple
\* (bmi, category) or an exception.  height_m ** 2 raises OverflowError
\* when the square of a finite number is too large for a float; the
\* division raises ZeroDivisionError when the square is zero, as it is for
\* a height so small that the square underflows
calculate_bmi(weight_kg, height) ==
    LET height_m == FloatDiv(height, Hundred)
    IN  {IF sq.kind = "inf" /\ height_m.kind = "fin"
         THEN [ok |-> FALSE, error |-> "OverflowError"]
         ELSE IF IsZero(sq)
         THEN [ok |-> FALSE, error |-> "ZeroDivisionError"]
         ELSE LET bmi == FloatDiv(weight_kg, sq)
              IN  [ok |-> TRUE, bmi |-> bmi, category |-> Category(bmi)] :
           sq \in FloatSquare(height_m)}

\* the dictionary input_user_info returns, for r what calculate_bmi returned
UserInfo(h, w, r) ==
    [height_cm |-> h, weight_kg |-> w, BMI |-> r.bmi,
     BMI_Category |-> r.category]

----------------------------------------------------------------------------
(* The clock and the record store *)

\* datetime.now().strftime("%Y-%m-%d")
strftime_date(t) == t \div TicksPerDay

\* datetime.now().strftime("%Y-%m-%d %H:%M:%S")
strftime_datetime(t) == [date |-> t \div TicksPerDay, time |-> t % TicksPerDay]

\* file_extension and filename of save_fitness_data
file_extension(sys) == IF sys # "Windows" THEN "csv" ELSE "xls"

\* faulty variant of filename: the instant of the save in the name
filename_timed(t, sys) == [today |-> t, ext |-> file_extension(sys)]

filename(t, sys) == [today |-> strftime_date(t), ext |-> file_extension(sys)]

\* faulty variant of RowOf: the entry's own weight in the profile's column
RowOf_entry_weight(entry, info) ==
    <<entry[1], info.height_cm, entry[4], info.BMI, info.BMI_Category>>
      \o SubSeq(entry, 2, Len(entry))

\* the row written for one entry: entry[0], the four profile values, entry[1:]
RowOf(entry, info) ==
    <<entry[1], info.height_cm, info.weight_kg, info.BMI, info.BMI_Category>>
      \o SubSeq(entry, 2, Len(entry))

\* faulty variant of RowsOf: writerow called twice for each entry
RECURSIVE RowsOf_twice(_, _)
RowsOf_twice(data, info) ==
    IF data = <<>> THEN <<>>
    ELSE <<RowOf(Head(data), info), RowOf(Head(data), info)>>
           \o RowsOf_twice(Tail(data), info)

\* lines 99-100: the rows written for the entries of data, in their order
RECURSIVE RowsOf(_, _)
RowsOf(data, info) ==
    IF data = <<>> THEN <<>>
    ELSE <<RowOf(Head(data), info)>> \o RowsOf(Tail(data), info)

\* faulty variant of save_fitness_data: the header written on every call
save_fitness_data_always_header(dir, data, info, t, sys) ==
    LET file_path == filename(t, sys)
        old       == IF file_path \in DOMAIN dir THEN dir[file_path] ELSE <<>>
    IN  [f \in DOMAIN dir \cup {file_path} |->
           IF f = file_path THEN old \o <<headers>> \o RowsOf(data, info)
           ELSE dir[f]]

\* faulty variant of save_fitness_data: the file opened with mode 'w'
save_fitness_data_truncating(dir, data, info, t, sys) ==
    LET file_path   == filename(t, sys)
        file_exists == file_path \in DOMAIN dir
        head        == IF ~file_exists THEN <<headers>> ELSE <<>>
    IN  [f \in DOMAIN dir \cup {file_path} |->
           IF f = file_path THEN head \o RowsOf(data, info) ELSE dir[f]]

\* save_fitness_data(data): the folder after the call
save_fitness_data(dir, data, info, t, sys) ==
    LET file_path   == filename(t, sys)
        file_exists == file_path \in DOMAIN dir
        old         == IF file_exists THEN dir[file_path] ELSE <<>>
        head        == IF ~file_exists THEN <<headers>> ELSE <<>>
    IN  [f \in DOMAIN dir \cup {file_path} |->
           IF f = file_path THEN old \o head \o RowsOf(data, info)
           ELSE dir[f]]

----------------------------------------------------------------------------
(* Input texts *)

Platforms == {"Linux", "Windows"}

\* answers to the height and weight prompts of input_user_info; the square
\* of 1e-200 cm in metres underflows to zero
HeightTexts ==
    {Text(<<"1", "8", "0">>), Text(<<"0">>), Text(<<"a", "b", "c">>),
     Text(<<"1", "e", "-", "2", "0", "0">>)}
WeightKgTexts == {Text(<<"8", "0">>), Text(<<"-", "5">>), <<>>}

\* comma-separated fields of a body-part line
TokenTexts ==
    {Text(<<"1">>), Text(<<"2">>), Text(<<"0", "1">>), Text(<<"0">>),
     Text(<<"a">>)}

\* further lines: the empty line, a signed number, a number after a blank,
\* a number with an underscore between its digits, and U+FF11, the
\* fullwidth digit one, which str.isdigit() and int() both take
OtherLines ==
    {<<>>, Text(<<"-", "1">>), Text(<<"2", ",", " ", "1">>),
     Text(<<"1", "_", "0">>), <<65297>>}

Comma == Text(<<",">>)

RECURSIVE join(_)
join(l) ==
    IF Len(l) = 1 THEN l[1] ELSE l[1] \o Comma \o join(Tail(l))

PartsLines ==
    {join(l) : l \in UNION {[1..n -> TokenTexts] : n \in 1..MaxTokens}}
      \cup OtherLines

\* answers to the exercise, weight, reps and sets prompts; 178 is U+00B2,
\* superscript two, for which str.isdigit() is true and int() raises
ExerciseTexts == {Text(<<"1">>), Text(<<"0">>), Text(<<"x">>), <<178>>}
WeightTexts == {Text(<<"6", "0">>), Text(<<"0">>), Text(<<"k", "g">>)}
RepsTexts == {Text(<<"1", "0">>), Text(<<"-", "1">>), Text(<<"1", ".", "5">>)}
SetsTexts == {Text(<<"3">>), Text(<<"0">>), <<>>}

\* answers to a yes/no prompt
YesNoTexts ==
    {Text(<<"y">>), Text(<<"Y", "E", "S">>), Text(<<"n">>),
     Text(<<"N", "o">>), Text(<<"m", "a", "y", "b", "e">>)}

----------------------------------------------------------------------------
(* The folder as an earlier run of the program on the same day left it *)

\* the profiles of a run that read the height 175 and the weight 70
PriorInfos ==
    LET h == float(Text(<<"1", "7", "5">>)).val
        w == float(Text(<<"7", "0">>)).val
    IN  {UserInfo(h, w, r) : r \in {c \in calculate_bmi(w, h) : c.ok}}

PriorEntry ==
    <<strftime_datetime(0), "Legs", "Leg Press",
      float(Text(<<"1", "0", "0">>)).val, int(Text(<<"8">>)).val,
      int(Text(<<"4">>)).val>>

NoFiles == [f \in {} |-> <<>>]

InitialFolders(sys) ==
    {NoFiles} \cup
      {save_fitness_data(NoFiles, <<PriorEntry>>, info, 0, sys) :
         info \in PriorInfos}

\* the value of a local variable that is not bound
None == <<-1>>

\* the value of a float and of an int variable that is not bound
NoFloat == FloatZero(FALSE)
NoInt == IntOfNat(0)

NoInfo == [height_cm |-> NoFloat, weight_kg |-> NoFloat, BMI |-> NoFloat,
           BMI_Category |-> ""]

Init ==
    /\ pc = "input_height"
    /\ now = TicksPerDay - 2
    /\ platform \in Platforms
    /\ files \in InitialFolders(platform)
    /\ files0 = files
    /\ user_info = NoInfo
    /\ height_cm = NoFloat
    /\ parts_choice = None
    /\ selected_parts = <<>>
    /\ part_iter = 0
    /\ part = ""
    /\ ex_choice = None
    /\ exercise = ""
    /\ weight = NoFloat
    /\ reps = NoInt
    /\ more = "None"
    /\ exercises_data = <<>>
    /\ printed = ""
    /\ passes = 0
    /\ entered = <<>>
    /\ created = <<>>
    /\ saved = <<>>

----------------------------------------------------------------------------
(* input_user_info *)

storeVars   == <<files, files0, platform, saved>>
profileVars == <<user_info, height_cm>>
passVars    == <<parts_choice, selected_parts, part_iter, part, entered>>
setVars     == <<ex_choice, exercise, weight, reps, more>>
dataVars    == <<exercises_data, created>>

\* line 74: the height prompt; ValueError restarts the loop
InputHeight(text) ==
    /\ pc = "input_height"
    /\ LET r == float(text)
       IN  IF r.ok
           THEN /\ height_cm' = r.val
                /\ pc' = "input_weight_kg"
                /\ printed' = ""
           ELSE /\ printed' = "Invalid input. Please enter valid numbers."
                /\ UNCHANGED <<height_cm, pc>>
    /\ UNCHANGED <<now, storeVars, user_info, passVars, setVars, dataVars,
                   passes>>

\* line 76: the test "height_cm > 0 and weight_kg > 0"
PositiveProfile(h, w) == FloatLt(FloatZero(FALSE), h) /\ FloatLt(FloatZero(FALSE), w)

\* lines 75-83: the weight prompt, the positivity test and calculate_bmi,
\* whose exceptions nothing catches
InputWeightKg(text) ==
    /\ pc = "input_weight_kg"
    /\ LET r == float(text)
       IN  IF ~r.ok
           THEN /\ printed' = "Invalid input. Please enter valid numbers."
                /\ pc' = "input_height"
                /\ user_info' = user_info
           ELSE IF PositiveProfile(height_cm, r.val)
           THEN \E c \in calculate_bmi(r.val, height_cm) :
                  IF c.ok
                  THEN /\ user_info' = UserInfo(height_cm, r.val, c)
                       /\ printed' = "Your BMI is"
                       /\ pc' = "select_parts"
                  ELSE /\ user_info' = user_info
                       /\ printed' = c.error
                       /\ pc' = "crashed"
           ELSE /\ printed' =
                     "Please enter positive values for height and weight."
                /\ pc' = "input_height"
                /\ user_info' = user_info
    /\ height_cm' = NoFloat
    /\ UNCHANGED <<now, storeVars, passVars, setVars, dataVars, passes>>

----------------------------------------------------------------------------
(* input_body_parts_and_exercises *)

\* faulty variant of sorted: the set listed in its iteration order, unsorted
sorted_no_key(s) ==
    {l \in [1..Cardinality(s) -> s] :
       \A i, j \in 1..Cardinality(s) : i # j => l[i] # l[j]}

\* sorted(s, key=int): the orders of the elements of s that ascend by int;
\* elements with equal keys come in the iteration order of the set, which
\* is any order
sorted(s) ==
    {l \in [1..Cardinality(s) -> s] :
       /\ \A i, j \in 1..Cardinality(s) : i # j => l[i] # l[j]
       /\ \A i, j \in 1..Cardinality(s) :
            i < j => IntLe(int(l[i]).val, int(l[j]).val)}

\* line 125: the test that admits a token as a body part
ValidPart(part_index) ==
    /\ isdigit(part_index)
    /\ Between(1, int(part_index).val, Len(body_parts))

\* the fields of a line that int() accepts and line 125 admits
ValidTokens(line) ==
    {t \in set(split(line, Comma)) : int(t).ok /\ ValidPart(t)}

\* faulty variant of fresh_exercises_data: the list of the pass before kept
fresh_exercises_data_kept == exercises_data

\* line 123: exercises_data = []
fresh_exercises_data == <<>>

\* lines 120-123: the body-part prompt; key=int raises ValueError, which
\* nothing catches, on a token int() does not accept
\* (the first two guards after pc are the bounds of the model: no more than
\* MaxPasses passes, and no line that would take the run past MaxRecords)
InputBodyParts(line) ==
    /\ pc = "select_parts"
    /\ passes < MaxPasses
    /\ Len(created) + Cardinality(ValidTokens(line)) <= MaxRecords
    /\ passes' = passes + 1
    /\ parts_choice' = line
    /\ LET tokens == set(split(line, Comma))
       IN  IF \E t \in tokens : ~int(t).ok
           THEN /\ pc' = "crashed"
                /\ printed' = "ValueError"
                /\ selected_parts' = <<>>
                /\ exercises_data' = exercises_data
           ELSE /\ selected_parts' \in sorted(tokens)
                /\ exercises_data' = fresh_exercises_data
                /\ pc' = "for_part"
                /\ printed' = ""
    /\ part_iter' = 0
    /\ part' = ""
    /\ entered' = <<>>
    /\ ex_choice' = None
    /\ exercise' = ""
    /\ more' = "None"
    /\ UNCHANGED <<now, storeVars, profileVars, weight, reps, created>>

\* lines 124-126, 150-152: one turn of the for loop over selected_parts
\* (parts_choice, which line 121 read for the last time, is dropped)
ForPart ==
    /\ pc = "for_part"
    /\ IF part_iter = Len(selected_parts)
       THEN /\ pc' = "returned"
            /\ printed' = ""
            /\ UNCHANGED <<part_iter, part, entered>>
       ELSE LET part_index == selected_parts[part_iter + 1]
            IN  /\ part_iter' = part_iter + 1
                /\ IF ValidPart(part_index)
                   THEN /\ part' = body_parts[NatOf(int(part_index).val)]
                        /\ entered' = Append(entered, part')
                        /\ pc' = "select_exercise"
                        /\ printed' = ""
                   ELSE /\ printed' = "Invalid body part selection. Please select a valid number."
                        /\ UNCHANGED <<pc, part, entered>>
    /\ parts_choice' = None
    /\ UNCHANGED <<now, storeVars, profileVars, selected_parts, setVars,
                   dataVars, passes>>

\* line 132: the test that admits an exercise index
ValidExercise(choice, p) ==
    /\ isdigit(choice)
    /\ Between(1, int(choice).val, Len(exercises[p]))

\* faulty variant of ExerciseStep: an else branch that breaks out of the loop
ExerciseStep_break(choice, p) ==
    IF isdigit(choice) /\ ~int(choice).ok THEN "crashed"
    ELSE IF ValidExercise(choice, p) THEN "input_weight"
    ELSE "for_part"

\* lines 131-133: where the exercise prompt leads.  int() raises ValueError
\* outside any try on a digit string it does not accept; an index that is
\* refused falls out of the if, and the while loop asks again
ExerciseStep(choice, p) ==
    IF isdigit(choice) /\ ~int(choice).ok THEN "crashed"
    ELSE IF ValidExercise(choice, p) THEN "input_weight"
    ELSE "select_exercise"

\* lines 128-133: the exercise prompt
InputExercise(text) ==
    /\ pc = "select_exercise"
    /\ ex_choice' = text
    /\ pc' = ExerciseStep(text, part)
    /\ exercise' = IF pc' = "input_weight"
                   THEN exercises[part][NatOf(int(text).val)] ELSE exercise
    /\ printed' = IF pc' = "crashed" THEN "ValueError" ELSE ""
    /\ UNCHANGED <<now, storeVars, profileVars, passVars, weight, reps, more,
                   dataVars, passes>>

\* faulty variant of InputWeight: ValueError ends the loop of the part
InputWeight_gives_up(text) ==
    /\ pc = "input_weight"
    /\ LET r == float(text)
       IN  IF r.ok
           THEN /\ weight' = r.val
                /\ pc' = "input_reps"
                /\ printed' = ""
           ELSE /\ printed' = "Invalid input. Please enter valid numbers."
                /\ pc' = "for_part"
                /\ weight' = weight
    /\ UNCHANGED <<now, storeVars, profileVars, passVars, ex_choice, exercise,
                   reps, more, dataVars, passes>>

\* line 136: the weight prompt inside the try block
InputWeight(text) ==
    /\ pc = "input_weight"
    /\ LET r == float(text)
       IN  IF r.ok
           THEN /\ weight' = r.val
                /\ pc' = "input_reps"
                /\ printed' = ""
           ELSE /\ printed' = "Invalid input. Please enter valid numbers."
                /\ UNCHANGED <<weight, pc>>
    /\ UNCHANGED <<now, storeVars, profileVars, passVars, ex_choice, exercise,
                   reps, more, dataVars, passes>>

\* faulty variant of InputReps: the reps prompt repeated on ValueError
InputReps_own_retry(text) ==
    /\ pc = "input_reps"
    /\ LET r == int(text)
       IN  IF r.ok
           THEN /\ reps' = r.val
                /\ pc' = "input_sets"
                /\ printed' = ""
           ELSE /\ printed' = "Invalid input. Please enter valid numbers."
                /\ pc' = "input_reps"
                /\ reps' = NoInt
    /\ UNCHANGED <<now, storeVars, profileVars, passVars, ex_choice, exercise,
                   weight, more, dataVars, passes>>

\* line 137: the reps prompt; ValueError restarts the try block at weight
InputReps(text) ==
    /\ pc = "input_reps"
    /\ LET r == int(text)
       IN  IF r.ok
           THEN /\ reps' = r.val
                /\ pc' = "input_sets"
                /\ printed' = ""
                /\ weight' = weight
           ELSE /\ printed' = "Invalid input. Please enter valid numbers."
                /\ pc' = "input_weight"
                /\ weight' = NoFloat
                /\ reps' = NoInt
    /\ UNCHANGED <<now, storeVars, profileVars, passVars, ex_choice, exercise,
                   more, dataVars, passes>>

\* the list appended at line 145
Entry(t, p, e, w, r, s) == <<strftime_datetime(t), p, e, w, r, s>>

\* faulty variant of PositiveSet: a weight of zero let through
PositiveSet_zero_weight(w, r, s) ==
    /\ FloatLe(FloatZero(FALSE), w)
    /\ IntLt(IntOfNat(0), r)
    /\ IntLt(IntOfNat(0), s)

\* line 139: the test "weight > 0 and reps > 0 and sets > 0"
PositiveSet(w, r, s) ==
    /\ FloatLt(FloatZero(FALSE), w)
    /\ IntLt(IntOfNat(0), r)
    /\ IntLt(IntOfNat(0), s)

\* lines 138-145: the sets prompt, the positivity test and the append
InputSets(text) ==
    /\ pc = "input_sets"
    /\ LET r == int(text)
       IN  IF ~r.ok
           THEN /\ printed' = "Invalid input. Please enter valid numbers."
                /\ pc' = "input_weight"
                /\ UNCHANGED dataVars
           ELSE IF PositiveSet(weight, reps, r.val)
           THEN /\ exercises_data' =
                     Append(exercises_data,
                            Entry(now, part, exercise, weight, reps, r.val))
                /\ created' =
                     Append(created,
                            Entry(now, part, exercise, weight, reps, r.val))
                /\ pc' = "ask_more"
                /\ printed' = ""
           ELSE /\ printed' =
                     "Please enter positive numbers for weight, reps, and sets."
                /\ pc' = "input_weight"
                /\ UNCHANGED dataVars
    /\ weight' = NoFloat
    /\ reps' = NoInt
    /\ UNCHANGED <<now, storeVars, profileVars, passVars, ex_choice, exercise,
                   more, passes>>

----------------------------------------------------------------------------
(* prompt_yes_no and main_loop *)

Yes == {Text(<<"y", "e", "s">>), Text(<<"y">>)}
No  == {Text(<<"n", "o">>), Text(<<"n">>)}

\* prompt_yes_no: "yes", "no" or "retry" for one response
prompt_yes_no(response) ==
    IF lower(response) \in Yes THEN "yes"
    ELSE IF lower(response) \in No THEN "no"
    ELSE "retry"

\* parts of selected_parts the for loop has still to enter
RemainingParts ==
    Cardinality({i \in (part_iter + 1)..Len(selected_parts) :
                   ValidPart(selected_parts[i])})

\* faulty variant of MoreStep: the loop of the part left on either answer
MoreStep_always_break(answer) == "for_part"

\* lines 148-149: "if not more: break"
MoreStep(answer) == IF answer = "yes" THEN "select_exercise" ELSE "for_part"

\* lines 147-149: "Add another exercise for the same body part?" (yes is
\* withheld when the run could not stay within MaxRecords)
PromptMore(response) ==
    /\ pc = "ask_more"
    /\ LET answer == prompt_yes_no(response)
       IN  \/ /\ answer = "yes"
              /\ Len(created) + RemainingParts < MaxRecords
              /\ more' = answer
              /\ pc' = MoreStep(answer)
              /\ printed' = ""
           \/ /\ answer = "no"
              /\ more' = answer
              /\ pc' = MoreStep(answer)
              /\ printed' = ""
           \/ /\ answer = "retry"
              /\ more' = more
              /\ pc' = pc
              /\ printed' =
                   "Invalid input. Please enter 'yes', 'y', 'no', or 'n'."
    /\ UNCHANGED <<now, storeVars, profileVars, passVars, ex_choice, exercise,
                   weight, reps, dataVars, passes>>

\* faulty variant of Truthy: the test of line 157 left out
Truthy_always(data) == TRUE

\* line 157: "if data:", the truth value of a list
Truthy(data) == data # <<>>

\* lines 156-158, 162-163: main_loop on the return of a collection pass
MainLoop ==
    /\ pc = "returned"
    /\ IF Truthy(exercises_data)
       THEN /\ files' = save_fitness_data(files, exercises_data, user_info,
                                          now, platform)
            /\ saved' = Append(saved, [at |-> now,
                                       date |-> strftime_date(now),
                                       file_path |-> filename(now, platform)])
            /\ printed' = "Data successfully saved to:"
            /\ pc' = "ask_another"
       ELSE /\ printed' = "Something went wrong, please start over."
            /\ pc' = "select_parts"
            /\ files' = files
            /\ saved' = saved
    /\ parts_choice' = None
    /\ selected_parts' = <<>>
    /\ part_iter' = 0
    /\ part' = ""
    /\ entered' = <<>>
    /\ ex_choice' = None
    /\ exercise' = ""
    /\ more' = "None"
    /\ UNCHANGED <<now, platform, files0, profileVars, weight, reps,
                   dataVars, passes>>

\* lines 159-161: "Would you like to enter exercises for another set of
\* body parts?"
PromptAnother(response) ==
    /\ pc = "ask_another"
    /\ LET another == prompt_yes_no(response)
       IN  \/ /\ another = "yes"
              /\ pc' = "select_parts"
              /\ printed' = ""
           \/ /\ another = "no"
              /\ pc' = "done"
              /\ printed' = ""
           \/ /\ another = "retry"
              /\ pc' = pc
              /\ printed' =
                   "Invalid input. Please enter 'yes', 'y', 'no', or 'n'."
    /\ UNCHANGED <<now, storeVars, profileVars, passVars, setVars, dataVars,
                   passes>>

\* the clock advances while the process waits at a prompt (the steps in
\* between read no clock before the next prompt or the save that follows)
Tick ==
    /\ pc \notin {"done", "crashed", "for_part", "returned"}
    /\ now < MaxNow
    /\ now' = now + 1
    /\ UNCHANGED <<pc, storeVars, profileVars, passVars, setVars, dataVars,
                   printed, passes>>

Next ==
    \/ \E text \in HeightTexts : InputHeight(text)
    \/ \E text \in WeightKgTexts : InputWeightKg(text)
    \/ \E line \in PartsLines : InputBodyParts(line)
    \/ ForPart
    \/ \E text \in ExerciseTexts : InputExercise(text)
    \/ \E text \in WeightTexts : InputWeight(text)
    \/ \E text \in RepsTexts : InputReps(text)
    \/ \E text \in SetsTexts : InputSets(text)
    \/ \E response \in YesNoTexts : PromptMore(response)
    \/ MainLoop
    \/ \E response \in YesNoTexts : PromptAnother(response)
    \/ Tick

Spec == Init /\ [][Next]_vars

----------------------------------------------------------------------------
(* Reading the store *)

\* the header row, told by its columns that hold text in every row
IsHeader(row) ==
    row[5] = headers[5] /\ row[6] = headers[6] /\ row[7] = headers[7]

SameRow(a, b) ==
    IF IsHeader(a) \/ IsHeader(b) THEN IsHeader(a) /\ IsHeader(b) ELSE a = b

IsPrefix(a, b) ==
    Len(a) <= Len(b) /\ \A i \in 1..Len(a) : SameRow(a[i], b[i])

SameFolder(a, b) ==
    /\ DOMAIN a = DOMAIN b
    /\ \A f \in DOMAIN a : Len(a[f]) = Len(b[f]) /\ IsPrefix(a[f], b[f])

\* rows of file f that an earlier run wrote
Len0(f) == IF f \in DOMAIN files0 THEN Len(files0[f]) ELSE 0

\* the places <<file, row number>> this process wrote
Written(dir) ==
    UNION {{<<f, i>> : i \in (Len0(f) + 1)..Len(dir[f])} : f \in DOMAIN dir}

WrittenData(dir) == {c \in Written(dir) : ~IsHeader(dir[c[1]][c[2]])}

\* the record a data row was written from
EntryOf(row) == <<row[1]>> \o SubSeq(row, 6, 10)

PartIndex(p) == CHOOSE i \in 1..Len(body_parts) : body_parts[i] = p

----------------------------------------------------------------------------
(* C1 *)

\* C1: every daily log file that exists holds exactly one header row, and
\* that row is the first row of the file, whatever saves were made.
C1_HeaderOnce ==
    \A f \in DOMAIN files :
      /\ Len(files[f]) >= 1
      /\ IsHeader(files[f][1])
      /\ \A i \in 2..Len(files[f]) : ~IsHeader(files[f][i])

\* two passes of one record each were saved into a file this process made
C1_Witness ==
    /\ pc = "ask_another"
    /\ passes = 2
    /\ Len(created) = 2
    /\ Len(exercises_data) = 1
    /\ \E f \in DOMAIN files \ DOMAIN files0 : Len(files[f]) = 3

----------------------------------------------------------------------------
(* C2 *)

\* C2: the store is append-only.  In every step each file stays, with its
\* old content as a prefix of the new; a save changes one file only, adding
\* the header if the file is new and then one data row per record of the
\* pass in the order of the records; no other step changes the folder.
C2_AppendOnly ==
    [][ /\ \A f \in DOMAIN files :
             f \in DOMAIN files' /\ IsPrefix(files[f], files'[f])
        /\ IF pc = "returned" /\ exercises_data # <<>>
           THEN \E f \in DOMAIN files' :
                  LET old   == IF f \in DOMAIN files THEN files[f] ELSE <<>>
                      added == SubSeq(files'[f], Len(old) + 1, Len(files'[f]))
                      rows  == IF f \in DOMAIN files THEN added
                               ELSE Tail(added)
                  IN  /\ f \notin DOMAIN files =>
                           Len(added) >= 1 /\ IsHeader(added[1])
                      /\ Len(rows) = Len(exercises_data)
                      /\ \A i \in 1..Len(rows) :
                           /\ ~IsHeader(rows[i])
                           /\ EntryOf(rows[i]) = exercises_data[i]
                      /\ DOMAIN files' = DOMAIN files \cup {f}
                      /\ \A g \in DOMAIN files \ {f} :
                           Len(files'[g]) = Len(files[g])
           ELSE SameFolder(files, files')
      ]_vars

\* a save has appended to a file that an earlier run had left
C2_Witness ==
    \E f \in DOMAIN files0 : Len(files[f]) > Len(files0[f])

----------------------------------------------------------------------------
(* C3 *)

\* C3: every data row this process has written carries, in its four profile
\* columns, the height, weight, BMI and BMI category of user_info, the
\* profile captured at startup, across saves of different exercise data.
C3_RowFidelity ==
    \A c \in WrittenData(files) :
      LET row == files[c[1]][c[2]]
      IN  /\ row[2] = user_info.height_cm
          /\ row[3] = user_info.weight_kg
          /\ row[4] = user_info.BMI
          /\ row[5] = user_info.BMI_Category

\* two saves of records for different body parts
C3_Witness ==
    /\ pc = "ask_another"
    /\ passes = 2
    /\ Len(created) = 2
    /\ Len(exercises_data) = 1
    /\ created[1][2] # created[2][2]
    /\ Cardinality(WrittenData(files)) = 2

----------------------------------------------------------------------------
(* C4 *)

\* an exercise index line 132 refuses: not a digit string, or a decimal
\* number outside 1..len(self.exercises[part])
InvalidIndex(choice, p) ==
    \/ ~isdigit(choice)
    \/ int(choice).ok /\ ~ValidExercise(choice, p)

\* C4 as stated: when the exercise index read is invalid the loop of that
\* body part exits without retry and the collector goes on to the next
\* selected body part.
C4_ExitsWithoutRetry ==
    [][ (pc = "select_exercise" /\ ex_choice' # ex_choice
           /\ InvalidIndex(ex_choice', part))
        => pc' = "for_part" ]_vars

\* C4, amended: when the exercise index read is invalid (not a digit string,
\* or a decimal number outside 1..number of exercises of the part) the loop
\* of that body part does not exit: the exercise prompt is issued again for
\* the same body part, no record is appended and the collector does not
\* advance to the next selected body part.
C4_AsksAgain ==
    [][ (pc = "select_exercise" /\ ex_choice' # ex_choice
           /\ InvalidIndex(ex_choice', part))
        => /\ pc' = "select_exercise"
           /\ part' = part
           /\ part_iter' = part_iter
           /\ entered' = entered
           /\ Len(exercises_data') = Len(exercises_data) ]_vars

\* the exercise prompt of a body part stands again after an invalid index
C4_Witness ==
    /\ pc = "select_exercise"
    /\ ex_choice # None
    /\ InvalidIndex(ex_choice, part)

----------------------------------------------------------------------------
(* C5 *)

\* C5: whatever line is read at the body-part prompt, the pass does not
\* abort: the for loop starts, every token of the line that is a digit
\* string in 1..5 is among the parts to process, and every other token is
\* there to be reported invalid and skipped.
C5_TokenSkip ==
    [][ (pc = "select_parts" /\ passes' = passes + 1)
        => /\ pc' = "for_part"
           /\ set(selected_parts') = set(split(parts_choice', Comma)) ]_vars

----------------------------------------------------------------------------
(* C6 *)

\* C6: the process ends in one way only, by the answer no to the question
\* asked after a save; no input at any prompt makes it exit or abort
\* otherwise.
C6_OnlyNoTerminates ==
    [][ (pc' \in {"done", "crashed"} /\ pc # pc')
        => (pc = "ask_another" /\ pc' = "done") ]_vars

----------------------------------------------------------------------------
(* C7 *)

\* the parts of the tokens line 125 admits, in the order of the list
RECURSIVE PartsOf(_)
PartsOf(l) ==
    IF l = <<>> THEN <<>>
    ELSE (IF ValidPart(Head(l))
          THEN <<body_parts[NatOf(int(Head(l)).val)]>>
          ELSE <<>>) \o PartsOf(Tail(l))

Ascending(idx) == \A i, j \in 1..Len(idx) : i < j => idx[i] <= idx[j]

\* C7: within a pass the body parts are processed in ascending catalog
\* index, whatever the order of the tokens in the line: the for loop runs
\* over the tokens of the line in ascending numeric order, the parts entered
\* so far are those of the tokens taken so far, in that order, and the
\* records of the pass are grouped by body part in ascending index.
C7_AscendingOrder ==
    /\ pc = "for_part" /\ parts_choice # None =>
         set(selected_parts) = set(split(parts_choice, Comma))
    /\ \A i, j \in 1..Len(selected_parts) :
         i < j => IntLe(int(selected_parts[i]).val, int(selected_parts[j]).val)
    /\ entered = PartsOf(SubSeq(selected_parts, 1, part_iter))
    /\ Ascending([i \in 1..Len(entered) |-> PartIndex(entered[i])])
    /\ Ascending([i \in 1..Len(exercises_data) |->
                    PartIndex(exercises_data[i][2])])

\* the line "2,1" was read: the for loop will take "1" and then "2"
C7_Witness ==
    /\ pc = "for_part"
    /\ parts_choice = Text(<<"2", ",", "1">>)
    /\ selected_parts = <<Text(<<"1">>), Text(<<"2">>)>>

----------------------------------------------------------------------------
(* C8 *)

\* C8: within one pass the exercise loop of a body part is entered at most
\* once, however many tokens of the line denote that part.
C8_EnteredOnce ==
    \A i, j \in 1..Len(entered) : i # j => entered[i] # entered[j]

----------------------------------------------------------------------------
(* C9 *)

\* C9: when a pass returns no record, main_loop leaves the folder as it is,
\* prints the generic failure and goes to the body-part prompt of a new
\* pass: it asks no question and does not end.
C9_EmptyPassRetries ==
    [][ (pc = "returned" /\ exercises_data = <<>> /\ pc' # pc)
        => /\ SameFolder(files, files')
           /\ printed' = "Something went wrong, please start over."
           /\ pc' = "select_parts" ]_vars

\* a pass over a line without a valid token has returned and was retried
C9_Witness ==
    /\ pc = "select_parts"
    /\ passes = 1
    /\ printed = "Something went wrong, please start over."
    /\ exercises_data = <<>>
    /\ SameFolder(files, files0)

----------------------------------------------------------------------------
(* C10 *)

\* how many times record r is in the list l
Count(l, r) == Cardinality({k \in 1..Len(l) : l[k] = r})

\* how many data rows written by this process come from record r
RowCount(dir, r) ==
    Cardinality({c \in WrittenData(dir) : EntryOf(dir[c[1]][c[2]]) = r})

\* C10: between passes (at the body-part prompt, at the question that
\* follows a save and at the end) every record the process has created is
\* in the store as exactly one data row and the store holds no other row of
\* this process: each pass that returned records was saved once, before the
\* question, and no save wrote a record of an earlier pass again.
C10_SavedOnce ==
    pc \in {"select_parts", "ask_another", "done"} =>
      /\ \A r \in set(created) : RowCount(files, r) = Count(created, r)
      /\ Cardinality(WrittenData(files)) = Len(created)

\* the process ended after two saved passes of one record each
C10_Witness ==
    /\ pc = "done"
    /\ passes = 2
    /\ Len(created) = 2
    /\ Len(exercises_data) = 1

----------------------------------------------------------------------------
(* C11 *)

\* the data rows of the folder, those of an earlier run included
DataRows(dir) ==
    UNION {{dir[f][i] : i \in 2..Len(dir[f])} : f \in DOMAIN dir}

PositiveFloat(x) == FloatLt(FloatZero(FALSE), x)
PositiveInt(n) == ~n.neg /\ n.m # <<>>

PositiveRecord(r) ==
    PositiveFloat(r[4]) /\ PositiveInt(r[5]) /\ PositiveInt(r[6])

\* C11: in every reachable state each data row of the store has a height,
\* a weight, an exercise weight, a number of reps and a number of sets all
\* greater than zero; so have the profile, once there is one, and every
\* record of the pass and of the run.  After a numeric entry was refused
\* the process is at a prompt again (the height prompt or the weight
\* prompt of the set): no profile or record came of it and it did not end.
C11_PositiveFields ==
    /\ \A row \in DataRows(files) :
         /\ PositiveFloat(row[2]) /\ PositiveFloat(row[3])
         /\ PositiveFloat(row[8])
         /\ PositiveInt(row[9]) /\ PositiveInt(row[10])
    /\ user_info # NoInfo =>
         /\ PositiveFloat(user_info.height_cm)
         /\ PositiveFloat(user_info.weight_kg)
    /\ \A i \in 1..Len(exercises_data) : PositiveRecord(exercises_data[i])
    /\ \A i \in 1..Len(created) : PositiveRecord(created[i])
    /\ printed \in {"Invalid input. Please enter valid numbers.",
                    "Please enter positive values for height and weight.",
                    "Please enter positive numbers for weight, reps, and sets."}
         => pc \in {"input_height", "input_weight"}
    /\ printed = "Please enter positive values for height and weight."
         => user_info = NoInfo
    /\ pc \in {"input_height", "input_weight_kg"} => user_info = NoInfo

\* a pass was saved, and in the next pass a set with a value that is not
\* positive was refused: the store holds the one row and the pass no record
C11_Witness ==
    /\ pc = "input_weight"
    /\ printed = "Please enter positive numbers for weight, reps, and sets."
    /\ exercises_data = <<>>
    /\ Len(created) = 1
    /\ Cardinality(WrittenData(files)) = 1

----------------------------------------------------------------------------
(* calculate_bmi on a grid of arguments *)

\* largest weight of the grid, in tenths of a kilogram
MaxBmiWeight == 1250

\* heights of the grid, in cm.  At 200 cm the BMI moves in steps of 0.025
\* and meets 18.5, 24.9, 25, 29.9 and 30; at 160 cm and 64 kg the float
\* quotient is 24.999999999999996; the square of 1e-200 cm in metres
\* underflows to zero
BmiHeights ==
    {float(text).val :
       text \in {Text(<<"1", "6", "0">>), Text(<<"1", "8", "0">>),
                 Text(<<"2", "0", "0">>),
                 Text(<<"1", "e", "-", "2", "0", "0">>)}}

\* the weights of the grid: 0.1, 0.2, ... kilograms, as float() reads them
BmiWeights == {Tenths(n) : n \in 1..MaxBmiWeight}

\* a call calculate_bmi(weight, height_cm) about to be made at line 77
BmiInit ==
    /\ pc = "calculate_bmi"
    /\ height_cm \in BmiHeights
    /\ weight \in BmiWeights
    /\ now = TicksPerDay - 2
    /\ platform = "Linux"
    /\ files = NoFiles
    /\ files0 = files
    /\ user_info = NoInfo
    /\ parts_choice = None
    /\ selected_parts = <<>>
    /\ part_iter = 0
    /\ part = ""
    /\ ex_choice = None
    /\ exercise = ""
    /\ reps = NoInt
    /\ more = "None"
    /\ exercises_data = <<>>
    /\ printed = ""
    /\ passes = 0
    /\ entered = <<>>
    /\ created = <<>>
    /\ saved = <<>>

\* lines 77-79: the call, and the dictionary made of what it returns; an
\* exception of the call ends the process
CalculateBmi ==
    /\ pc = "calculate_bmi"
    /\ \E c \in calculate_bmi(weight, height_cm) :
         IF c.ok
         THEN /\ user_info' = UserInfo(height_cm, weight, c)
              /\ printed' = "Your BMI is"
              /\ pc' = "calculate_bmi_return"
         ELSE /\ user_info' = user_info
              /\ printed' = c.error
              /\ pc' = "crashed"
    /\ UNCHANGED <<now, storeVars, height_cm, passVars, setVars, dataVars,
                   passes>>

BmiNext == CalculateBmi

BmiSpec == BmiInit /\ [][BmiNext]_vars

----------------------------------------------------------------------------
(* C12 *)

\* C12: for every weight > 0 and height > 0 the category calculate_bmi
\* returns follows the thresholds: Underweight iff bmi < 18.5, Normal iff
\* 18.5 <= bmi <= 24.9, Overweight iff 25 <= bmi <= 29.9, and Obese only
\* when bmi > 29.9.
C12_Thresholds ==
    pc = "calculate_bmi_return" =>
      LET bmi      == user_info.BMI
          category == user_info.BMI_Category
      IN  /\ category = "Underweight" <=> FloatLt(bmi, Tenths(185))
          /\ category = "Normal weight" <=>
               (FloatLe(Tenths(185), bmi) /\ FloatLe(bmi, Tenths(249)))
          /\ category = "Overweight" <=>
               (FloatLe(Tenths(250), bmi) /\ FloatLe(bmi, Tenths(299)))
          /\ category = "Obesity" => FloatLt(Tenths(299), bmi)

----------------------------------------------------------------------------
(* C13 *)

\* a == b on floats: neither is a nan and they compare equal
FloatEq(a, b) == FloatLe(a, b) /\ FloatLe(b, a)

\* what C13 says of a call that has returned: the category is one of the
\* four, and the intervals are closed at the listed bounds
ClosedBounds(bmi, category) ==
    /\ category \in {"Underweight", "Normal weight", "Overweight", "Obesity"}
    /\ FloatEq(bmi, Tenths(185)) => category = "Normal weight"
    /\ FloatEq(bmi, Tenths(249)) => category = "Normal weight"
    /\ FloatEq(bmi, Tenths(250)) => category = "Overweight"
    /\ FloatEq(bmi, Tenths(299)) => category = "Overweight"
    /\ FloatEq(bmi, Tenths(300)) => category = "Obesity"
    /\ FloatLt(bmi, Tenths(185)) => category = "Underweight"

\* the BMI of w kilograms at h centimetres, w / (h / 100)^2 in the real
\* numbers, is n tenths: w * 100000 = n * h^2, for finite w > 0 and h > 0
ExactBmiIs(w, h, n) ==
    MagCmp(Canon(FALSE, BigMul(w.m, BigOfNat(100000)), w.e),
           Canon(FALSE, BigMul(BigMul(h.m, h.m), BigOfNat(n)), 2 * h.e)) = 0

\* the listed bounds as BMIs of the arguments: the category a call for w
\* and h has returned, where their BMI is one of the bounds
ExactBounds(w, h, category) ==
    /\ ExactBmiIs(w, h, 185) => category = "Normal weight"
    /\ ExactBmiIs(w, h, 249) => category = "Normal weight"
    /\ ExactBmiIs(w, h, 250) => category = "Overweight"
    /\ ExactBmiIs(w, h, 299) => category = "Overweight"
    /\ ExactBmiIs(w, h, 300) => category = "Obesity"

\* C13: for every weight > 0 and height > 0 calculate_bmi returns one of
\* the four categories, and the intervals are closed at the listed bounds:
\* a BMI of 18.5 or of 24.9 is Normal, of 25 or of 29.9 Overweight, of 30
\* Obese, and every BMI below 18.5 is Underweight; this both of the bmi
\* the call returns and of the BMI of its arguments.
C13_ClosedBounds ==
    pc # "calculate_bmi" =>
      /\ pc = "calculate_bmi_return"
      /\ ClosedBounds(user_info.BMI, user_info.BMI_Category)
      /\ ExactBounds(weight, height_cm, user_info.BMI_Category)

\* the part of C13 that fails although the call returns: 64 kg at 160 cm,
\* a BMI of 25, and the like
C13_ExactWhenReturned ==
    pc = "calculate_bmi_return" =>
      ExactBounds(weight, height_cm, user_info.BMI_Category)

\* what holds of the same calls: one that returns gives one of the four
\* categories, with the intervals closed at the listed bounds
C13_ClosedWhenReturned ==
    pc = "calculate_bmi_return" =>
      ClosedBounds(user_info.BMI, user_info.BMI_Category)

\* calculate_bmi has returned for 99.6 kg at 200 cm, a BMI of 24.9
C13_BoundReached ==
    /\ pc = "calculate_bmi_return"
    /\ user_info.weight_kg = Tenths(996)
    /\ user_info.height_cm = FloatOfNat(200)
    /\ FloatEq(user_info.BMI, Tenths(249))
    /\ user_info.BMI_Category = "Normal weight"

----------------------------------------------------------------------------
(* C14 *)

\* the files this process has written to
FilesWritten(dir) == {c[1] : c \in Written(dir)}

\* C14: the file a save writes to is a function of the calendar date at the
\* time of the save, and of nothing else: two saves on the same date write
\* to the same file, two saves on different dates to different files, and
\* the extension is the same in every save of the run.  The files the
\* process has written to are those the saves named, one per date.
C14_OneFilePerDay ==
    /\ \A i, j \in 1..Len(saved) :
         /\ saved[i].date = saved[j].date <=>
              saved[i].file_path = saved[j].file_path
         /\ saved[i].file_path.ext = saved[j].file_path.ext
    /\ FilesWritten(files) = {saved[i].file_path : i \in 1..Len(saved)}
    /\ Cardinality(FilesWritten(files)) =
         Cardinality({saved[i].date : i \in 1..Len(saved)})

\* two saves were made at two instants of one date, and one file was
\* written
C14_Witness ==
    /\ Len(saved) = 2
    /\ saved[1].at # saved[2].at
    /\ saved[1].date = saved[2].date
    /\ Cardinality(FilesWritten(files)) = 1

\* two saves were made, one before and one after a change of date, and two
\* files were written
C14_DateChange ==
    /\ Len(saved) = 2
    /\ saved[1].date # saved[2].date
    /\ Cardinality(FilesWritten(files)) = 2

----------------------------------------------------------------------------
(* C15 *)

\* 24.691358024691358, what Python prints for 80 / (180 / 100.0) ** 2
Bmi_80_180 ==
    float(Text(<<"2", "4", ".", "6", "9", "1", "3", "5", "8", "0", "2", "4",
                 "6", "9", "1", "3", "5", "8">>)).val

\* C15: a run that found no log file for the date of its save, made one
\* pass and one record (a valid profile, one valid body-part token, one
\* valid exercise index, a valid weight, reps and sets, then no to both
\* questions) and ended, leaves the file of that date with the header row
\* followed by exactly one data row: the timestamp of the record, the
\* height, weight, BMI and category of the profile, the body part chosen,
\* the name of the exercise chosen, and the weight, reps and sets entered.
C15_EndToEnd ==
    (/\ pc = "done"
     /\ passes = 1
     /\ Len(created) = 1
     /\ Len(saved) = 1
     /\ saved[1].file_path \notin DOMAIN files0)
    => LET rows  == files[saved[1].file_path]
           entry == created[1]
       IN  /\ saved[1].file_path.today = saved[1].date
           /\ Len(rows) = 2
           /\ IsHeader(rows[1])
           /\ rows[1] = headers
           /\ ~IsHeader(rows[2])
           /\ Len(rows[2]) = 10
           /\ rows[2][1] = entry[1]
           /\ rows[2][1].date <= saved[1].date
           /\ rows[2][2] = float(Text(<<"1", "8", "0">>)).val
           /\ rows[2][3] = float(Text(<<"8", "0">>)).val
           /\ rows[2][4] = Bmi_80_180
           /\ rows[2][5] = "Normal weight"
           /\ rows[2][6] = entry[2]
           /\ rows[2][6] \in {body_parts[1], body_parts[2]}
           /\ rows[2][7] = exercises[rows[2][6]][1]
           /\ rows[2][8] = float(Text(<<"6", "0">>)).val
           /\ rows[2][9] = int(Text(<<"1", "0">>)).val
           /\ rows[2][10] = int(Text(<<"3">>)).val

\* the run of one pass and one record has ended; it made the file
C15_Witness ==
    /\ pc = "done"
    /\ passes = 1
    /\ Len(created) = 1
    /\ Len(saved) = 1
    /\ saved[1].file_path \notin DOMAIN files0
    /\ Len(files[saved[1].file_path]) = 2

----------------------------------------------------------------------------
(* C16 *)

\* C16 as stated: weight, reps and sets have each a retry of their own: a
\* step at the prompt of one field leads to that prompt again or to what
\* follows it, never back to a field that was accepted before.
C16_FieldRetry ==
    [][ /\ pc = "input_weight" => pc' \in {"input_weight", "input_reps"}
        /\ pc = "input_reps" => pc' \in {"input_reps", "input_sets"}
        /\ pc = "input_sets" => pc' \in {"input_sets", "ask_more"} ]_vars

\* C16, amended: weight, reps and sets are read in this order inside one
\* retry loop.  A text that float() or int() refuses at the reps or the
\* sets prompt, and a weight, reps or sets that is not positive (found
\* after the sets were read), print a message and lead back to the weight
\* prompt: all three are asked again, no record is appended.  A refused
\* weight text leads to the weight prompt again.  The record is appended
\* by the step that reads the sets, when the three values of one round are
\* positive.
C16_GroupRetry ==
    [][ /\ (pc = "input_weight" /\ now' = now) =>
              \/ pc' = "input_reps"
              \/ /\ pc' = "input_weight"
                 /\ printed' = "Invalid input. Please enter valid numbers."
        /\ (pc = "input_reps" /\ now' = now) =>
              \/ pc' = "input_sets" /\ weight' = weight
              \/ /\ pc' = "input_weight"
                 /\ printed' = "Invalid input. Please enter valid numbers."
        /\ (pc = "input_sets" /\ now' = now) =>
              \/ /\ pc' = "ask_more"
                 /\ PositiveFloat(weight) /\ PositiveInt(reps)
                 /\ Len(exercises_data') = Len(exercises_data) + 1
                 /\ exercises_data'[Len(exercises_data')][4] = weight
                 /\ exercises_data'[Len(exercises_data')][5] = reps
              \/ /\ pc' = "input_weight"
                 /\ printed' \in
                      {"Invalid input. Please enter valid numbers.",
                       "Please enter positive numbers for weight, reps, and sets."}
        /\ (pc \in {"input_weight", "input_reps", "input_sets"}
              /\ pc' # "ask_more") => exercises_data' = exercises_data
      ]_vars

\* the weight prompt stands again after a round of three values was read
\* and one of them was not positive
C16_Witness ==
    /\ pc = "input_weight"
    /\ printed = "Please enter positive numbers for weight, reps, and sets."
    /\ part # ""
    /\ exercise # ""

----------------------------------------------------------------------------
(* C17 *)

\* positions of selected_parts the for loop has not taken that line 125
\* admits
ValidAhead ==
    {i \in (part_iter + 1)..Len(selected_parts) :
       ValidPart(selected_parts[i])}

Min(S) == CHOOSE i \in S : \A j \in S : i <= j

\* C17: the question "Add another exercise for the same body part?" is put
\* once for each record, by the step that appends it, and by no other
\* step.  The answer yes leads to the exercise prompt of the same body
\* part, the for loop staying where it is; the answer no leaves the loop
\* of the part, and the for loop then goes to the next selected body part
\* in order, or to the return of the pass when none is left.  Neither
\* answer changes the records.  (An answer that is neither yes nor no gets
\* the same question again.)
C17_MoreQuestion ==
    [][ /\ (pc' = "ask_more" /\ pc # "ask_more") <=>
             Len(exercises_data') = Len(exercises_data) + 1
        /\ pc' = "ask_more" /\ pc # "ask_more" =>
             exercises_data'[Len(exercises_data')][2] = part
        /\ pc = "ask_more" =>
             /\ exercises_data' = exercises_data
             /\ part' = part /\ part_iter' = part_iter
             /\ entered' = entered
             /\ \/ pc' = "ask_more" /\ more' = more
                \/ pc' = "select_exercise" /\ more' = "yes"
                \/ pc' = "for_part" /\ more' = "no"
        /\ (pc = "for_part" /\ more = "no" /\ pc' # "for_part") =>
             IF ValidAhead = {}
             THEN pc' = "returned"
             ELSE /\ pc' = "select_exercise"
                  /\ part_iter' = Min(ValidAhead)
                  /\ part' =
                       body_parts[NatOf(int(selected_parts[part_iter']).val)]
      ]_vars

\* after a record for a part the answer yes was given: the exercise prompt
\* of that part stands again, the record kept
C17_Witness ==
    /\ pc = "select_exercise"
    /\ more = "yes"
    /\ Len(exercises_data) = 1
    /\ exercises_data[1][2] = part
    /\ entered = <<part>>

----------------------------------------------------------------------------
(* The process with a user who goes on *)

\* steps in which an input is taken that the round it belongs to can be
\* completed with: a positive height, then a positive weight; a line of
\* valid tokens; a valid exercise index; a positive weight, positive reps
\* and positive sets of one round
AcceptedHeight ==
    \E text \in HeightTexts :
      InputHeight(text) /\ FloatLt(FloatZero(FALSE), height_cm')

\* a weight that line 76 lets through, with the height before it
AcceptedWeightKg ==
    \E text \in WeightKgTexts : InputWeightKg(text) /\ pc' # "input_height"

AcceptedParts ==
    \E line \in PartsLines :
      /\ InputBodyParts(line)
      /\ \A t \in set(split(line, Comma)) : ValidPart(t)

AcceptedExercise ==
    \E text \in ExerciseTexts : InputExercise(text) /\ pc' = "input_weight"

AcceptedWeight ==
    \E text \in WeightTexts :
      InputWeight(text) /\ FloatLt(FloatZero(FALSE), weight')

AcceptedReps ==
    \E text \in RepsTexts :
      /\ InputReps(text)
      /\ FloatLt(FloatZero(FALSE), weight)
      /\ IntLt(IntOfNat(0), reps')
      /\ pc' = "input_sets"

AcceptedSets ==
    \E text \in SetsTexts : InputSets(text) /\ pc' = "ask_more"

\* the answer no to each of the two questions
AnswerNoMore ==
    \E response \in YesNoTexts : PromptMore(response) /\ pc' = "for_part"

AnswerNoAnother ==
    \E response \in YesNoTexts : PromptAnother(response) /\ pc' = "done"

\* where each of these actions can take a step: its guard, with the values
\* it gives the primed variables put in their place
CanInputBodyParts ==
    /\ pc = "select_parts"
    /\ passes < MaxPasses
    /\ \E line \in PartsLines :
         Len(created) + Cardinality(ValidTokens(line)) <= MaxRecords

CanAcceptHeight ==
    /\ pc = "input_height"
    /\ \E text \in HeightTexts :
         float(text).ok /\ FloatLt(FloatZero(FALSE), float(text).val)

CanAcceptWeightKg ==
    /\ pc = "input_weight_kg"
    /\ \E text \in WeightKgTexts :
         float(text).ok /\ PositiveProfile(height_cm, float(text).val)

CanAcceptParts ==
    /\ pc = "select_parts"
    /\ passes < MaxPasses
    /\ \E line \in PartsLines :
         /\ Len(created) + Cardinality(ValidTokens(line)) <= MaxRecords
         /\ \A t \in set(split(line, Comma)) : int(t).ok /\ ValidPart(t)

CanAcceptExercise ==
    /\ pc = "select_exercise"
    /\ \E text \in ExerciseTexts : ExerciseStep(text, part) = "input_weight"

CanAcceptWeight ==
    /\ pc = "input_weight"
    /\ \E text \in WeightTexts :
         float(text).ok /\ FloatLt(FloatZero(FALSE), float(text).val)

CanAcceptReps ==
    /\ pc = "input_reps"
    /\ FloatLt(FloatZero(FALSE), weight)
    /\ \E text \in RepsTexts :
         int(text).ok /\ IntLt(IntOfNat(0), int(text).val)

CanAcceptSets ==
    /\ pc = "input_sets"
    /\ \E text \in SetsTexts :
         int(text).ok /\ PositiveSet(weight, reps, int(text).val)

\* the steps the program takes without reading a line are taken, and a
\* prompt that stands is answered (weak fairness); at each prompt that
\* stands again and again the user comes to give an accepted input, and to
\* each question the answer no (strong fairness).  Weak fairness of an
\* action A that can step where P holds is []<>~P \/ []<><<A>>_vars, and
\* strong fairness is <>[]~P \/ []<><<A>>_vars; the conditions on the
\* actions that convert a number are stated in that form, with P the
\* predicate above or the prompt the action answers.
Fairness ==
    /\ []<>(pc # "for_part") \/ []<><<ForPart>>_vars
    /\ []<>(pc # "returned") \/ []<><<MainLoop>>_vars
    /\ \/ []<>(pc # "input_height")
       \/ []<><<\E text \in HeightTexts : InputHeight(text)>>_vars
    /\ \/ []<>(pc # "input_weight_kg")
       \/ []<><<\E text \in WeightKgTexts : InputWeightKg(text)>>_vars
    /\ \/ []<>~CanInputBodyParts
       \/ []<><<\E line \in PartsLines : InputBodyParts(line)>>_vars
    /\ \/ []<>(pc # "select_exercise")
       \/ []<><<\E text \in ExerciseTexts : InputExercise(text)>>_vars
    /\ \/ []<>(pc # "input_weight")
       \/ []<><<\E text \in WeightTexts : InputWeight(text)>>_vars
    /\ \/ []<>(pc # "input_reps")
       \/ []<><<\E text \in RepsTexts : InputReps(text)>>_vars
    /\ \/ []<>(pc # "input_sets")
       \/ []<><<\E text \in SetsTexts : InputSets(text)>>_vars
    /\ WF_vars(\E response \in YesNoTexts : PromptMore(response))
    /\ WF_vars(\E response \in YesNoTexts : PromptAnother(response))
    /\ <>[]~CanAcceptHeight \/ []<><<AcceptedHeight>>_vars
    /\ <>[]~CanAcceptWeightKg \/ []<><<AcceptedWeightKg>>_vars
    /\ <>[]~CanAcceptParts \/ []<><<AcceptedParts>>_vars
    /\ <>[]~CanAcceptExercise \/ []<><<AcceptedExercise>>_vars
    /\ <>[]~CanAcceptWeight \/ []<><<AcceptedWeight>>_vars
    /\ <>[]~CanAcceptReps \/ []<><<AcceptedReps>>_vars
    /\ <>[]~CanAcceptSets \/ []<><<AcceptedSets>>_vars
    /\ SF_vars(AnswerNoMore)
    /\ SF_vars(AnswerNoAnother)

FairSpec == Init /\ [][Next]_vars /\ Fairness

----------------------------------------------------------------------------
(* C18 *)

\* the body-part prompt of a pass that the bound MaxPasses leaves out
OutOfPasses == pc = "select_parts" /\ passes = MaxPasses

\* C18: with a user who at every prompt comes to give an accepted input and
\* comes to answer no to both questions, the process ends (within the
\* passes of the model), and when it has ended it has written at least
\* one data row.
C18_Terminates ==
    <>((pc = "done" /\ WrittenData(files) # {}) \/ OutOfPasses)

\* what holds of the same runs: they end, having written a row, or stop on
\* the ValueError of line 121 or line 132, or on the ZeroDivisionError or
\* OverflowError of line 9
C18_TerminatesOrCrashes ==
    <>((pc = "done" /\ WrittenData(files) # {}) \/ OutOfPasses
         \/ pc = "crashed")

----------------------------------------------------------------------------
(* C19 *)

\* how many items of the list l are p
Times(l, p) == Cardinality({k \in 1..Len(l) : l[k] = p})

\* the parts of the records of a list
RecordParts(data) == [k \in 1..Len(data) |-> data[k][2]]

\* the exercise loops of this pass that have been left (a process that the
\* ValueError of line 132 stopped has stopped inside the last one)
LoopsLeft ==
    IF pc \in {"select_exercise", "input_weight", "input_reps", "input_sets",
               "ask_more", "crashed"}
    THEN SubSeq(entered, 1, Len(entered) - 1)
    ELSE entered

\* C19: a pass does not leave the exercise loop of a body part before a
\* record for that part is appended: every loop that was left has given a
\* record of its own, and the loop the pass is in has given one once the
\* question is put.  So a pass that returns has no record exactly when no
\* token of its line is a valid body part, and has at least one record for
\* every valid token.
C19_LoopYieldsRecord ==
    /\ \A i \in 1..Len(LoopsLeft) :
         Times(RecordParts(exercises_data), LoopsLeft[i])
           >= Times(LoopsLeft, LoopsLeft[i])
    /\ pc = "ask_more" =>
         Times(RecordParts(exercises_data), part) >= Times(entered, part)
    /\ pc = "returned" =>
         /\ exercises_data = <<>> <=>
              \A i \in 1..Len(selected_parts) : ~ValidPart(selected_parts[i])
         /\ entered = PartsOf(selected_parts)
         /\ Len(exercises_data) >= Len(PartsOf(selected_parts))

\* a pass over a line with an invalid and a valid token has returned, with
\* a record for the valid one
C19_Witness ==
    /\ pc = "returned"
    /\ Len(selected_parts) = 2
    /\ ~ValidPart(selected_parts[1])
    /\ ValidPart(selected_parts[2])
    /\ Len(exercises_data) >= 1

----------------------------------------------------------------------------
(* C20 *)

\* C20: every data row of the log file of a calendar date carries a
\* timestamp of that date, whatever the clock did between the making of
\* the record and the save of its pass.
C20_RowDateIsFileDate ==
    \A f \in DOMAIN files :
      \A i \in 2..Len(files[f]) : files[f][i][1].date = f.today

====
